---- MODULE Spec2Model ----
(***************************************************************************)
(* FlakeCache CLI: dependency-graph cache (src/src/cache.rs) and the       *)
(* cache-assisted graph builder (src/src/cache_warm.rs).                   *)
(*                                                                         *)
(* Strings are sequences of byte values (ASCII codes); a file's content is *)
(* a sequence of byte values too.                                          *)
(***************************************************************************)
EXTENDS Integers, Sequences, FiniteSets, TLC

VARIABLES
    hin,     \* hash_derivations: the list of roots handed to it
    hout,    \* hash_derivations: [done, hash] the value returned
    store,   \* the nix store seen through nix-store --query: [reqs, refs]
    fs,      \* the cache directory: file name -> [exists, data]
    out,     \* what the last operation returned and did
    dir,     \* concurrent saves: file name -> inode number, 0 when the name is absent
    inodes,  \* concurrent saves: inode number -> content
    writers, \* concurrent saves: each writer's position in save, descriptor and offset
    session, \* chunked download: the ChunkedDownloader's sizes, semaphore, tasks and result
    chunks,  \* chunked download: chunk_idx -> ChunkStatus
    workers, \* chunked download: chunk_idx -> the position of the chunk's task
    throttle,\* chunked download: [max_concurrent, latencies, baseline_latency]
    uploads, \* upload_parallel: the tasks, the buffered futures and the results
    resolver \* resolve: the store paths, the position in resolve_single and the log

vars == <<hin, hout, store, fs, out, dir, inodes, writers,
          session, chunks, workers, throttle, uploads, resolver>>

hashVars == <<hin, hout>>
cacheVars == <<store, fs, out>>
concVars == <<dir, inodes, writers>>

xferVars == <<session, chunks, workers, throttle, uploads>>

ConcIdle == dir = <<>> /\ inodes = <<>> /\ writers = <<>>

XferIdle ==
    /\ session = <<>> /\ chunks = <<>> /\ workers = <<>> /\ throttle = <<>>
    /\ uploads = <<>>

toolVars == <<resolver>>

ToolIdle == resolver = <<>>

(***************************************************************************)
(* Sequences and strings                                                   *)
(***************************************************************************)
SeqToSet(s) == {s[i] : i \in 1..Len(s)}

Reverse(s) == [i \in 1..Len(s) |-> s[Len(s) + 1 - i]]

RECURSIVE Flatten(_)
Flatten(ss) == IF ss = <<>> THEN <<>> ELSE Head(ss) \o Flatten(Tail(ss))

Perms(S) == {p \in [1..Cardinality(S) -> S] : \A i, j \in 1..Cardinality(S) : p[i] = p[j] => i = j}

PermsOfSeq(xs) == {[i \in 1..Len(xs) |-> xs[p[i]]] : p \in Perms(1..Len(xs))}

Pos(s, x) == CHOOSE i \in 1..Len(s) : s[i] = x

\* Ord for String (byte-wise lexicographic), as used by Vec<String>::sort
StrLess(a, b) ==
    \E i \in 1..(Len(b)) :
        /\ \A j \in 1..(i - 1) : j <= Len(a) /\ a[j] = b[j]
        /\ (i > Len(a) \/ (i <= Len(a) /\ a[i] < b[i]))
        /\ i - 1 <= Len(a)

RECURSIVE InsertSorted(_, _)
InsertSorted(x, s) ==
    IF s = <<>> THEN <<x>>
    ELSE IF StrLess(x, Head(s)) THEN <<x>> \o s
    ELSE <<Head(s)>> \o InsertSorted(x, Tail(s))

RECURSIVE SortStrings(_)
SortStrings(xs) == IF xs = <<>> THEN <<>> ELSE InsertSorted(Head(xs), SortStrings(Tail(xs)))

(***************************************************************************)
(* hash_derivations (cache.rs:124-139)                                     *)
(***************************************************************************)
Newline == 10

HashMod == 2 ^ 16

DigestBytes == 32

ShortHashBytes == 8

\* Sha256::update: the running state absorbs the bytes in order
RECURSIVE Sha256Update(_, _)
Sha256Update(h, bytes) ==
    IF bytes = <<>> THEN h
    ELSE Sha256Update((h * 31 + Head(bytes) + 1) % HashMod, Tail(bytes))

\* Sha256::finalize: the 32-byte digest of the absorbed bytes
Sha256Finalize(h) ==
    [i \in 1..DigestBytes |->
        ((IF i % 2 = 1 THEN h % 256 ELSE h \div 256) + (i - 1) \div 2) % 256]

HexDigit(n) == IF n < 10 THEN 48 + n ELSE 87 + n

\* hex::encode
RECURSIVE HexEncode(_)
HexEncode(bytes) ==
    IF bytes = <<>> THEN <<>>
    ELSE <<HexDigit(Head(bytes) \div 16), HexDigit(Head(bytes) % 16)>> \o HexEncode(Tail(bytes))

RECURSIVE HashLines(_, _)
HashLines(h, drvs) ==
    IF drvs = <<>> THEN h
    ELSE HashLines(Sha256Update(Sha256Update(h, Head(drvs)), <<Newline>>), Tail(drvs))

hash_unsorted(derivations) ==
    HexEncode(SubSeq(Sha256Finalize(HashLines(0, derivations)), 1, ShortHashBytes))

hash_derivations(derivations) ==
    HexEncode(SubSeq(Sha256Finalize(HashLines(0, SortStrings(derivations))), 1, ShortHashBytes))

(***************************************************************************)
(* Specification of hash_derivations as a pure function                    *)
(***************************************************************************)
MaxRoots == 3

\* "a", "b", "ab", "b\n"
DrvNames == {<<97>>, <<98>>, <<97, 98>>, <<98, 10>>}

HashInputs == UNION {[1..n -> DrvNames] : n \in 0..MaxRoots}

HashIdle == hin = <<>> /\ hout = [done |-> FALSE, hash |-> <<>>]

HashInit == hin \in HashInputs /\ hout = [done |-> FALSE, hash |-> <<>>]

HashDerivations ==
    /\ ~hout.done
    /\ hout' = [done |-> TRUE, hash |-> hash_derivations(hin)]
    /\ UNCHANGED <<hin, cacheVars, concVars, xferVars, toolVars>>

CacheIdle ==
    /\ store = [reqs |-> <<>>, refs |-> <<>>]
    /\ fs = <<>>
    /\ out = [op |-> "none"]

InitHash == HashInit /\ CacheIdle /\ ConcIdle /\ XferIdle /\ ToolIdle

NextHash == HashDerivations

SpecHash == InitHash /\ [][NextHash]_vars

\* C7: hash_derivations gives the same hash for every permutation of its input
C7_OrderIndependent ==
    hout.done => \A ys \in PermsOfSeq(hin) : hash_derivations(ys) = hout.hash

C7_Witness ==
    /\ hout.done
    /\ Len(hin) = 3
    /\ hin[1] # hin[2] /\ hin[2] # hin[3] /\ hin[1] # hin[3]
    /\ StrLess(hin[2], hin[1])

(***************************************************************************)
(* DependencyCache record (cache.rs:10-29) and its encodings.              *)
(* HashMap values are functions from keys to values.                       *)
(***************************************************************************)
EmptyMap == [k \in {} |-> <<>>]

DependencyCache(created_at, derivations_hash, paths, build_order, edges, cache_status) ==
    [created_at |-> created_at, derivations_hash |-> derivations_hash, paths |-> paths,
     build_order |-> build_order, edges |-> edges, cache_status |-> cache_status]

NoRecord == DependencyCache(0, <<>>, <<>>, <<>>, EmptyMap, EmptyMap)

\* first byte of the binary record: a CBOR map of six entries (0xA6)
CborMapHeader == 166

CborTrue == 245

CborFalse == 244

\* '{' and '}' delimit the textual record
JsonOpen == 123

JsonClose == 125

RECURSIVE SortedKeys(_)
SortedKeys(S) ==
    IF S = {} THEN <<>>
    ELSE LET m == CHOOSE x \in S : \A y \in S \ {x} : StrLess(x, y)
         IN <<m>> \o SortedKeys(S \ {m})

EncStr(s) == <<Len(s)>> \o s

EncStrList(ss) == <<Len(ss)>> \o Flatten([i \in 1..Len(ss) |-> EncStr(ss[i])])

EncEdgeEntries(m, ks) ==
    <<Len(ks)>> \o Flatten([i \in 1..Len(ks) |-> EncStr(ks[i]) \o EncStrList(m[ks[i]])])

EncEdges(m) == EncEdgeEntries(m, SortedKeys(DOMAIN m))

EncBool(b) == IF b THEN CborTrue ELSE CborFalse

EncStatusEntries(m, ks) ==
    <<Len(ks)>> \o Flatten([i \in 1..Len(ks) |->
            EncStr(ks[i]) \o <<EncBool(m[ks[i]][1]), m[ks[i]][2]>>])

EncStatus(m) == EncStatusEntries(m, SortedKeys(DOMAIN m))

EncFields(r) ==
    <<r.created_at>> \o EncStr(r.derivations_hash) \o EncStrList(r.paths)
        \o EncStrList(r.build_order) \o EncEdges(r.edges) \o EncStatus(r.cache_status)

\* cbor::encode
CborEncode(r) == <<CborMapHeader>> \o EncFields(r)

\* serde_json::to_vec: what a writer of the textual form leaves on disk
JsonEncode(r) == <<JsonOpen>> \o EncFields(r) \o <<JsonClose>>

\* A parse step returns [ok, val, pos]: the value read and the position after it
ParseFail == [ok |-> FALSE, val |-> <<>>, pos |-> 0]

ParseOk(v, pos) == [ok |-> TRUE, val |-> v, pos |-> pos]

ParseUInt(d, pos) == IF pos <= Len(d) THEN ParseOk(d[pos], pos + 1) ELSE ParseFail

ParseBool(d, pos) ==
    IF pos <= Len(d) /\ d[pos] \in {CborTrue, CborFalse}
    THEN ParseOk(d[pos] = CborTrue, pos + 1)
    ELSE ParseFail

ParseStr(d, pos) ==
    IF pos <= Len(d) /\ pos + d[pos] <= Len(d)
    THEN ParseOk(SubSeq(d, pos + 1, pos + d[pos]), pos + d[pos] + 1)
    ELSE ParseFail

\* v followed by the items of rest
ParseCons(v, rest) ==
    IF rest.ok THEN ParseOk(<<v>> \o rest.val, rest.pos) ELSE ParseFail

\* the pair (k, v.val)
ParsePair(k, v) == IF v.ok THEN ParseOk(<<k, v.val>>, v.pos) ELSE ParseFail

RECURSIVE ParseStrs(_, _, _), ParseStrsAfter(_, _, _)
ParseStrs(d, pos, n) ==
    IF n = 0 THEN ParseOk(<<>>, pos) ELSE ParseStrsAfter(d, n, ParseStr(d, pos))

ParseStrsAfter(d, n, s) ==
    IF s.ok THEN ParseCons(s.val, ParseStrs(d, s.pos, n - 1)) ELSE ParseFail

ParseStrList(d, pos) == IF pos <= Len(d) THEN ParseStrs(d, pos + 1, d[pos]) ELSE ParseFail

\* one entry of the edges map: a key and its list of strings
ParseEdgeValue(d, k) == IF k.ok THEN ParsePair(k.val, ParseStrList(d, k.pos)) ELSE ParseFail

ParseEdgeEntry(d, pos) == ParseEdgeValue(d, ParseStr(d, pos))

\* one entry of the cache_status map: a key and its (bool, u64)
ParseStatusTime(b, t) == IF t.ok THEN ParseOk(<<b, t.val>>, t.pos) ELSE ParseFail

ParseStatusBool(d, b) == IF b.ok THEN ParseStatusTime(b.val, ParseUInt(d, b.pos)) ELSE ParseFail

ParseStatusValue(d, k) ==
    IF k.ok THEN ParsePair(k.val, ParseStatusBool(d, ParseBool(d, k.pos))) ELSE ParseFail

ParseStatusEntry(d, pos) == ParseStatusValue(d, ParseStr(d, pos))

RECURSIVE ParseEdgeEntries(_, _, _), ParseEdgeEntriesAfter(_, _, _)
ParseEdgeEntries(d, pos, n) ==
    IF n = 0 THEN ParseOk(<<>>, pos) ELSE ParseEdgeEntriesAfter(d, n, ParseEdgeEntry(d, pos))

ParseEdgeEntriesAfter(d, n, e) ==
    IF e.ok THEN ParseCons(e.val, ParseEdgeEntries(d, e.pos, n - 1)) ELSE ParseFail

RECURSIVE ParseStatusEntries(_, _, _), ParseStatusEntriesAfter(_, _, _)
ParseStatusEntries(d, pos, n) ==
    IF n = 0 THEN ParseOk(<<>>, pos) ELSE ParseStatusEntriesAfter(d, n, ParseStatusEntry(d, pos))

ParseStatusEntriesAfter(d, n, e) ==
    IF e.ok THEN ParseCons(e.val, ParseStatusEntries(d, e.pos, n - 1)) ELSE ParseFail

\* a HashMap collected from (key, value) entries: a later entry replaces an earlier one
MapOfEntries(es) ==
    [k \in {es[i][1] : i \in 1..Len(es)} |->
        es[CHOOSE i \in 1..Len(es) : es[i][1] = k /\ \A j \in (i + 1)..Len(es) : es[j][1] # k][2]]

ParseMap(es) == IF es.ok THEN ParseOk(MapOfEntries(es.val), es.pos) ELSE ParseFail

ParseEdges(d, pos) ==
    IF pos <= Len(d) THEN ParseMap(ParseEdgeEntries(d, pos + 1, d[pos])) ELSE ParseFail

ParseStatus(d, pos) ==
    IF pos <= Len(d) THEN ParseMap(ParseStatusEntries(d, pos + 1, d[pos])) ELSE ParseFail

\* the record under construction with one more field read
PutField(st, name, r) ==
    IF r.ok THEN ParseOk([st.val EXCEPT ![name] = r.val], r.pos) ELSE ParseFail

FieldCreatedAt(d, st) ==
    IF st.ok THEN PutField(st, "created_at", ParseUInt(d, st.pos)) ELSE ParseFail

FieldHash(d, st) ==
    IF st.ok THEN PutField(st, "derivations_hash", ParseStr(d, st.pos)) ELSE ParseFail

FieldPaths(d, st) ==
    IF st.ok THEN PutField(st, "paths", ParseStrList(d, st.pos)) ELSE ParseFail

FieldBuildOrder(d, st) ==
    IF st.ok THEN PutField(st, "build_order", ParseStrList(d, st.pos)) ELSE ParseFail

FieldEdges(d, st) ==
    IF st.ok THEN PutField(st, "edges", ParseEdges(d, st.pos)) ELSE ParseFail

FieldStatus(d, st) ==
    IF st.ok THEN PutField(st, "cache_status", ParseStatus(d, st.pos)) ELSE ParseFail

ParseFields(d, pos) ==
    FieldStatus(d, FieldEdges(d, FieldBuildOrder(d, FieldPaths(d,
        FieldHash(d, FieldCreatedAt(d, ParseOk(NoRecord, pos)))))))

\* the whole input must be one record
ParseWhole(d, b) == IF b.ok /\ b.pos = Len(d) + 1 THEN b ELSE ParseFail

\* cbor::decode
CborDecode(d) ==
    IF Len(d) >= 1 /\ d[1] = CborMapHeader THEN ParseWhole(d, ParseFields(d, 2)) ELSE ParseFail

\* serde_json::from_slice
JsonDecode(d) ==
    IF Len(d) >= 2 /\ d[1] = JsonOpen /\ d[Len(d)] = JsonClose
    THEN ParseWhole(SubSeq(d, 1, Len(d) - 1), ParseFields(SubSeq(d, 1, Len(d) - 1), 2))
    ELSE ParseFail

(***************************************************************************)
(* The cache directory and DependencyCache::load / save / is_valid          *)
(***************************************************************************)
NoFile == [exists |-> FALSE, data |-> <<>>]

File(d) == [exists |-> TRUE, data |-> d]

\* "deps-"
DepsPrefix == <<100, 101, 112, 115, 45>>

get_cache_file(derivations_hash) == [stem |-> DepsPrefix \o derivations_hash, ext |-> "cbor"]

with_extension(p, e) == [p EXCEPT !.ext = e]

remove_file(f, p) == [f EXCEPT ![p] = NoFile]

rename(f, from, to) ==
    IF from = to THEN f ELSE [f EXCEPT ![to] = f[from], ![from] = NoFile]

LoadResult(status, some, val, f) == [status |-> status, some |-> some, val |-> val, fs |-> f]

\* cache.rs:46-53: the textual decode, and the removal when it fails too
load_json(f, cache_path, j) ==
    IF j.ok THEN LoadResult("Ok", TRUE, j.val, f)
    ELSE LoadResult("Ok", FALSE, NoRecord, remove_file(f, cache_path))

\* cache.rs:42-55: the binary decode first
load_cbor(f, cache_path, c) ==
    IF c.ok THEN LoadResult("Ok", TRUE, c.val, f)
    ELSE load_json(f, cache_path, JsonDecode(f[cache_path].data))

load_keep_corrupt(f, cache_path, fault) ==
    IF ~f[cache_path].exists \/ ~CborDecode(f[cache_path].data).ok
    THEN LoadResult("Ok", FALSE, NoRecord, f)
    ELSE LoadResult("Ok", TRUE, CborDecode(f[cache_path].data).val, f)

\* fault = "read": fs::read fails on a file that exists
load(f, cache_path, fault) ==
    IF ~f[cache_path].exists THEN LoadResult("Ok", FALSE, NoRecord, f)
    ELSE IF fault = "read" THEN LoadResult("Err", FALSE, NoRecord, f)
    ELSE load_cbor(f, cache_path, CborDecode(f[cache_path].data))

SaveResult(status, f) == [status |-> status, fs |-> f]

\* fs::write(path, bytes) that completes
write(f, path, bytes) == [f EXCEPT ![path] = File(bytes)]

\* fs::write that fails part way: the file is left with the bytes written so far
write_failed(f, path, bytes) == [f EXCEPT ![path] = File(SubSeq(bytes, 1, Len(bytes) \div 2))]

save_no_rename(f, r, cache_path, fault) ==
    SaveResult("Ok", write(f, with_extension(cache_path, "tmp"), CborEncode(r)))

\* fault = "mkdir" | "write" | "rename": the step of save that fails
save(f, r, cache_path, fault) ==
    IF fault = "mkdir" THEN SaveResult("Err", f)
    ELSE IF fault = "write"
    THEN SaveResult("Err", write_failed(f, with_extension(cache_path, "tmp"), CborEncode(r)))
    ELSE IF fault = "rename"
    THEN SaveResult("Err", write(f, with_extension(cache_path, "tmp"), CborEncode(r)))
    ELSE SaveResult("Ok", rename(write(f, with_extension(cache_path, "tmp"), CborEncode(r)),
                                 with_extension(cache_path, "tmp"), cache_path))

is_valid_fresh(r, current_derivations_hash) ==
    r.derivations_hash = current_derivations_hash /\ r.created_at > 0

is_valid(r, current_derivations_hash) == r.derivations_hash = current_derivations_hash

(***************************************************************************)
(* The files of the cache directory                                        *)
(***************************************************************************)
\* "a", "b": the derivations detect_derivations can report
Drvs == {<<97>>, <<98>>}

\* what detect_derivations returns; empty when the project has no derivation
RootLists == {<<>>, <<<<97>>, <<98>>>>, <<<<98>>, <<97>>>>}

CachePaths == {get_cache_file(hash_derivations(rl)) : rl \in RootLists \ {<<>>}}

FileNames == CachePaths \cup {with_extension(p, "tmp") : p \in CachePaths}

EmptyDir == [p \in FileNames |-> NoFile]

\* "p", "q", "r": store paths
StorePaths == {<<112>>, <<113>>, <<114>>}

MaxTime == 1

Times == 0..MaxTime

(***************************************************************************)
(* The dependency graph (cache_warm.rs:324-340, 365-518, 569-586)           *)
(***************************************************************************)
\* nix-store --query --requisites; an empty list when the query fails
get_requisites(st, drv_path) == st.reqs[drv_path]

\* nix-store --query --references; an empty list when the query fails
get_references(st, store_path) == st.refs[store_path]

\* the paths yielded by the stream, in order: the requisites of each derivation in turn
stream_dependency_graph(st, derivations) ==
    Flatten([i \in 1..Len(derivations) |-> get_requisites(st, derivations[i])])

KnownRefsNoSelf(st, nodes, path) ==
    SelectSeq(get_references(st, path), LAMBDA dep : dep \in nodes /\ dep # path)

\* the references of path that are nodes of the graph, in the order the query lists them
KnownRefs(st, nodes, path) ==
    SelectSeq(get_references(st, path), LAMBDA dep : dep \in nodes)

\* graph.add_edge(dep_idx, node_idx, ()) for every known reference of path
EdgesInto(refs, path) == [j \in 1..Len(refs) |-> [from |-> refs[j], to |-> path]]

\* A petgraph Graph: nodes in index order, edges in insertion order. idx is the order
\* in which the HashSet of paths is iterated.
build_graph_from_paths(st, paths, idx) ==
    [nodes |-> idx,
     edges |-> Flatten([i \in 1..Len(idx) |->
                  EdgesInto(KnownRefs(st, SeqToSet(paths), idx[i]), idx[i])])]

Sources(es) == [i \in 1..Len(es) |-> es[i].from]

\* graph.neighbors_directed(node, Incoming): the newest edge first
neighbors_incoming(graph, node) ==
    Reverse(Sources(SelectSeq(graph.edges, LAMBDA e : e.to = node)))

\* cache_warm.rs:402-410
edges_map(graph) == [path \in SeqToSet(graph.nodes) |-> neighbors_incoming(graph, path)]

\* petgraph::algo::toposort: the orders in which every edge's source precedes its target;
\* none when the graph has a cycle (a self-loop included)
TopoOrders(graph) ==
    {o \in Perms(SeqToSet(graph.nodes)) :
        \A i \in 1..Len(graph.edges) : Pos(o, graph.edges[i].from) < Pos(o, graph.edges[i].to)}

toposort(graph) == [ok |-> TopoOrders(graph) # {}, orders |-> TopoOrders(graph)]

build_orders_drop_cycle(graph) ==
    IF toposort(graph).ok THEN toposort(graph).orders ELSE {<<>>}

\* cache_warm.rs:414-423: the order toposort returns, or graph.node_indices() on a cycle
build_orders(graph) ==
    IF toposort(graph).ok THEN toposort(graph).orders ELSE {graph.nodes}

\* cache_warm.rs:428-432
ordered_paths(build_order) == Reverse(build_order)

BuildResult(all_paths, graph, build_order, saved) ==
    [status |-> "Ok",
     paths |-> all_paths,
     order |-> ordered_paths(build_order),
     edges |-> edges_map(graph),
     nodes |-> SeqToSet(graph.nodes),
     nedges |-> Len(graph.edges),
     warned |-> ~toposort(graph).ok,
     saveStatus |-> saved.status,
     fs |-> saved.fs]

build_and_cache_propagate(f, derivations_hash, cache_file, now, all_paths, graph, build_order, fault) ==
    [BuildResult(all_paths, graph, build_order,
        save(f, DependencyCache(now, derivations_hash, all_paths, ordered_paths(build_order),
                                edges_map(graph), EmptyMap), cache_file, fault))
     EXCEPT !.status = IF fault \in {"mkdir", "write", "rename"} THEN "Err" ELSE "Ok"]

build_and_cache_skip_empty(f, derivations_hash, cache_file, now, all_paths, graph, build_order, fault) ==
    BuildResult(all_paths, graph, build_order,
        IF all_paths = <<>> THEN SaveResult("None", f)
        ELSE save(f, DependencyCache(now, derivations_hash, all_paths,
                                     ordered_paths(build_order), edges_map(graph), EmptyMap),
                  cache_file, fault))

\* cache_warm.rs:366-454, after the paths are collected and the graph is built
build_and_cache(f, derivations_hash, cache_file, now, all_paths, graph, build_order, fault) ==
    BuildResult(all_paths, graph, build_order,
        save(f, DependencyCache(now, derivations_hash, all_paths, ordered_paths(build_order),
                                edges_map(graph), EmptyMap), cache_file, fault))

\* idx: the iteration order of the HashSet of paths; build_order: the order chosen among
\* build_orders of the graph built with idx
build_and_cache_graph(st, f, derivations, derivations_hash, cache_file, now, idx, build_order, fault) ==
    build_and_cache(f, derivations_hash, cache_file, now,
        stream_dependency_graph(st, derivations),
        build_graph_from_paths(st, stream_dependency_graph(st, derivations), idx),
        build_order, fault)

(***************************************************************************)
(* auto_prewarm up to the ordered paths it hands to the downloads            *)
(* (cache_warm.rs:122-149)                                                  *)
(***************************************************************************)
PrewarmOut(derivations, derivations_hash, cache_file, now, l, status, hit, b) ==
    [op |-> "prewarm", roots |-> derivations, now |-> now,
     hash |-> derivations_hash, file |-> cache_file,
     status |-> status, loadStatus |-> l.status, loaded |-> l.some, cached |-> l.val,
     hit |-> hit, built |-> b.built, warned |-> b.warned, saveStatus |-> b.saveStatus,
     queries |-> b.queries, paths |-> b.paths, order |-> b.order, edges |-> b.edges,
     nodes |-> b.nodes, nedges |-> b.nedges]

\* nothing was built: the order comes from elsewhere
NotBuilt(order) ==
    [built |-> FALSE, warned |-> FALSE, saveStatus |-> "None", queries |-> 0,
     paths |-> <<>>, order |-> order, edges |-> EmptyMap, nodes |-> {}, nedges |-> 0]

\* one requisites query per derivation and one references query per node
Built(derivations, b) ==
    [built |-> TRUE, warned |-> b.warned, saveStatus |-> b.saveStatus,
     queries |-> Len(derivations) + Cardinality(b.nodes),
     paths |-> b.paths, order |-> b.order, edges |-> b.edges, nodes |-> b.nodes,
     nedges |-> b.nedges]

\* cache_warm.rs:140, 144
PrewarmBuilt(derivations, derivations_hash, cache_file, now, l, b) ==
    [fs |-> b.fs,
     out |-> PrewarmOut(derivations, derivations_hash, cache_file, now, l, b.status, FALSE,
                        Built(derivations, b))]

\* cache_warm.rs:134-145, with l the result of DependencyCache::load(&cache_file)
PrewarmLoaded(st, derivations, derivations_hash, cache_file, now, idx, build_order, fault, l) ==
    IF l.status = "Err"
    THEN [fs |-> l.fs,
          out |-> PrewarmOut(derivations, derivations_hash, cache_file, now, l, "Err", FALSE,
                             NotBuilt(<<>>))]
    ELSE IF l.some /\ is_valid(l.val, derivations_hash)
    THEN [fs |-> l.fs,
          out |-> PrewarmOut(derivations, derivations_hash, cache_file, now, l, "Ok", TRUE,
                             NotBuilt(l.val.build_order))]
    ELSE PrewarmBuilt(derivations, derivations_hash, cache_file, now, l,
            build_and_cache_graph(st, l.fs, derivations, derivations_hash, cache_file, now,
                                  idx, build_order, fault))

NotLoaded == [status |-> "None", some |-> FALSE, val |-> NoRecord]

\* cache_warm.rs:126-128
PrewarmEmpty(f, derivations, now) ==
    [fs |-> f,
     out |-> PrewarmOut(derivations, <<>>, get_cache_file(<<>>), now, NotLoaded, "Ok", FALSE,
                        NotBuilt(<<>>))]

\* cache_warm.rs:132-149, with the hash of line 131
PrewarmHashed(st, f, derivations, derivations_hash, now, idx, build_order, fault) ==
    PrewarmLoaded(st, derivations, derivations_hash, get_cache_file(derivations_hash), now,
                  idx, build_order, fault,
                  load(f, get_cache_file(derivations_hash), fault))

RebuildHashed(st, f, derivations, derivations_hash, now, idx, build_order, fault) ==
    PrewarmBuilt(derivations, derivations_hash, get_cache_file(derivations_hash), now,
        load(f, get_cache_file(derivations_hash), fault),
        build_and_cache_graph(st, f, derivations, derivations_hash,
            get_cache_file(derivations_hash), now, idx, build_order, fault))

auto_prewarm_rebuild(st, f, derivations, now, idx, build_order, fault) ==
    IF derivations = <<>>
    THEN PrewarmEmpty(f, derivations, now)
    ELSE RebuildHashed(st, f, derivations, hash_derivations(derivations), now, idx,
                       build_order, fault)

auto_prewarm(st, f, derivations, now, idx, build_order, fault) ==
    IF derivations = <<>>
    THEN PrewarmEmpty(f, derivations, now)
    ELSE PrewarmHashed(st, f, derivations, hash_derivations(derivations), now, idx,
                       build_order, fault)

(***************************************************************************)
(* Specification of the cache store alone: save, load, and a file damaged  *)
(* behind the program's back                                               *)
(***************************************************************************)
CodecTarget == get_cache_file(hash_derivations(<<<<97>>, <<98>>>>))

CodecPaths == {CodecTarget, with_extension(CodecTarget, "tmp")}

SampleEdges ==
    {EmptyMap,
     [k \in {<<112>>, <<113>>} |-> IF k = <<112>> THEN <<<<113>>>> ELSE <<>>],
     [k \in {<<112>>} |-> <<<<113>>, <<113>>>>]}

SampleStatus ==
    {EmptyMap,
     [k \in {<<112>>} |-> <<TRUE, MaxTime>>],
     [k \in {<<112>>, <<113>>} |-> IF k = <<112>> THEN <<FALSE, 0>> ELSE <<TRUE, MaxTime>>]}

RecordSamples ==
    {DependencyCache(t, h, ps, bo, es, cs) :
        t \in Times,
        h \in {<<>>, hash_derivations(<<<<97>>>>)},
        ps \in {<<>>, <<<<112>>, <<113>>>>, <<<<112>>, <<112>>>>},
        bo \in {<<>>, <<<<113>>, <<112>>>>},
        es \in SampleEdges,
        cs \in SampleStatus}

OldRecord == DependencyCache(0, hash_derivations(<<<<97>>>>), <<<<114>>>>, <<<<114>>>>, EmptyMap, EmptyMap)

\* what damage leaves of a file's bytes: emptied, overwritten, cut short, extended, shifted
Damaged(d) ==
    {<<>>, <<0>>, SubSeq(d, 1, Len(d) \div 2), d \o <<0>>, Tail(d \o <<0>>)}

Decodes(d) == CborDecode(d).ok \/ JsonDecode(d).ok

InitCodec ==
    /\ HashIdle
    /\ XferIdle
    /\ ToolIdle
    /\ ConcIdle
    /\ store = [reqs |-> <<>>, refs |-> <<>>]
    /\ \E c \in {NoFile, File(CborEncode(OldRecord)), File(JsonEncode(OldRecord))} :
           fs = [EmptyDir EXCEPT ![CodecTarget] = c]
    /\ out = [op |-> "none"]

Saved(r, p, s) ==
    /\ fs' = s.fs
    /\ out' = [op |-> "save", path |-> p, rec |-> r, status |-> s.status]

\* r.save(p) called directly
SaveRecord ==
    /\ out.op = "none"
    /\ \E r \in RecordSamples, p \in CodecPaths : Saved(r, p, save(fs, r, p, "none"))
    /\ UNCHANGED <<store, hashVars, xferVars, concVars, toolVars>>

Loaded(p, l) ==
    /\ fs' = l.fs
    /\ out' = [op |-> "load", path |-> p, status |-> l.status, some |-> l.some,
               val |-> l.val, before |-> fs[p],
               saved |-> IF out.op = "save" /\ out.status = "Ok" /\ out.path = p
                         THEN <<out.rec>> ELSE <<>>]

\* DependencyCache::load(p) called directly
LoadRecord ==
    /\ \E p \in CodecPaths : Loaded(p, load(fs, p, "none"))
    /\ UNCHANGED <<store, hashVars, xferVars, concVars, toolVars>>

\* the file is damaged on disk by something other than the program
DamageFile ==
    /\ \E p \in CodecPaths :
        /\ fs[p].exists
        /\ Decodes(fs[p].data)
        /\ \E g \in Damaged(fs[p].data) :
            /\ fs' = [fs EXCEPT ![p] = File(g)]
            /\ out' = [op |-> "damage", path |-> p]
    /\ UNCHANGED <<store, hashVars, xferVars, concVars, toolVars>>

NextCodec == SaveRecord \/ LoadRecord \/ DamageFile

SpecCodec == InitCodec /\ [][NextCodec]_vars

\* C3: a load that follows a successful save of r to the same path returns Some(r),
\* field by field
C3_RoundTrip ==
    (out.op = "load" /\ out.saved # <<>>) =>
        /\ out.status = "Ok"
        /\ out.some
        /\ out.val.created_at = out.saved[1].created_at
        /\ out.val.derivations_hash = out.saved[1].derivations_hash
        /\ out.val.paths = out.saved[1].paths
        /\ out.val.build_order = out.saved[1].build_order
        /\ out.val.edges = out.saved[1].edges
        /\ out.val.cache_status = out.saved[1].cache_status

C3_Witness ==
    /\ out.op = "load"
    /\ out.saved # <<>>
    /\ out.some
    /\ DOMAIN out.saved[1].edges # {}
    /\ Cardinality(DOMAIN out.saved[1].cache_status) = 2
    /\ out.saved[1].created_at > 0

RefLists ==
    {<<>>} \cup {<<x>> : x \in StorePaths}
           \cup {<<e[1], e[2]>> : e \in {u \in StorePaths \X StorePaths : ~StrLess(u[2], u[1])}}

\* what nix-store --query --requisites lists for "a" and for "b": three paths and one
\* of them again, two paths, or nothing for "a", for "b" or for both (the query failed)
ReqEnvs ==
    {[d \in Drvs |-> IF d = <<97>> THEN <<<<113>>, <<114>>, <<112>>>> ELSE <<<<112>>>>],
     [d \in Drvs |-> IF d = <<97>> THEN <<<<112>>, <<113>>>> ELSE <<>>],
     [d \in Drvs |-> IF d = <<97>> THEN <<>> ELSE <<<<112>>>>],
     [d \in Drvs |-> <<>>]}

GraphEnvs == {[reqs |-> rq, refs |-> rf] : rq \in ReqEnvs, rf \in [StorePaths -> RefLists]}

(***************************************************************************)
(* Specification of one auto_prewarm run on an empty cache directory, over *)
(* every store of GraphEnvs                                                *)
(***************************************************************************)
Prewarmed(r) ==
    /\ fs' = r.fs
    /\ out' = r.out
    /\ UNCHANGED <<store, hashVars, xferVars, concVars, toolVars>>

Prewarm(fault) ==
    \E rl \in RootLists, now \in Times :
        \E idx \in Perms(SeqToSet(stream_dependency_graph(store, rl))) :
            \E bo \in build_orders(build_graph_from_paths(store, stream_dependency_graph(store, rl), idx)) :
                Prewarmed(auto_prewarm(store, fs, rl, now, idx, bo, fault))

InitGraph ==
    /\ HashIdle
    /\ XferIdle
    /\ ToolIdle
    /\ ConcIdle
    /\ store \in GraphEnvs
    /\ fs = EmptyDir
    /\ out = [op |-> "none"]

FirstPrewarm == out.op = "none" /\ Prewarm("none")

NextGraph == FirstPrewarm

SpecGraph == InitGraph /\ [][NextGraph]_vars

\* P references D directly, both discovered
References(P, D) == D \in out.nodes /\ P \in out.nodes /\ D \in SeqToSet(store.refs[P])

\* C1: in the order built for an acyclic graph every dependency precedes its dependents
C1_DependenciesFirst ==
    (out.op = "prewarm" /\ out.built /\ ~out.warned) =>
        \A P, D \in out.nodes :
            (P # D /\ References(P, D)) => Pos(out.order, D) < Pos(out.order, P)

\* the pairs joined by a path of one or more references between discovered paths
RECURSIVE Closure(_)
Closure(R) ==
    IF \A x \in R, y \in R : (x[2] = y[1]) => <<x[1], y[2]>> \in R
    THEN R
    ELSE Closure(R \cup {<<x[1], y[2]>> : x \in {u \in R : \E v \in R : u[2] = v[1]},
                                          y \in R})

HasCycle ==
    \E n \in out.nodes :
        <<n, n>> \in {c \in Closure({<<P, D>> \in out.nodes \X out.nodes : References(P, D)}) : TRUE}

\* C2: the build succeeds on every graph, its order holds every discovered path exactly
\* once, and the cycle warning is given exactly when the references form a cycle
C2_CompletePermutation ==
    (out.op = "prewarm" /\ out.built) =>
        /\ out.status = "Ok"
        /\ Len(out.order) = Cardinality(SeqToSet(out.paths))
        /\ SeqToSet(out.order) = SeqToSet(out.paths)
        /\ out.warned <=> HasCycle

C2_Witness ==
    /\ out.op = "prewarm" /\ out.built /\ out.status = "Ok"
    /\ out.warned
    /\ Len(out.order) = 3
    /\ \A n \in out.nodes : n \notin SeqToSet(store.refs[n])

(***************************************************************************)
(* Specification of the program over repeated runs: auto_prewarm against a *)
(* cache directory that persists between runs                              *)
(***************************************************************************)
\* the stores of GraphEnvs in which "p" and "q" reference at most each other
CacheEnvs ==
    {e \in GraphEnvs :
        /\ e.refs[<<114>>] = <<>>
        /\ e.refs[<<112>>] \in {<<>>, <<<<113>>>>}
        /\ e.refs[<<113>>] \in {<<>>, <<<<112>>>>}}

\* a record left by a run over other roots, and one left in the textual form
StaleRecord ==
    DependencyCache(MaxTime, hash_derivations(<<<<97>>>>), <<<<114>>>>, <<<<114>>>>, EmptyMap, EmptyMap)

TextRecord ==
    DependencyCache(0, hash_derivations(<<<<97>>, <<98>>>>), <<<<113>>, <<112>>>>,
                    <<<<112>>, <<113>>>>, EmptyMap, EmptyMap)

\* a record left by a run over the same roots whose queries all failed
EmptyOrderRecord ==
    DependencyCache(0, hash_derivations(<<<<97>>, <<98>>>>), <<>>, <<>>, EmptyMap, EmptyMap)

InitialFiles ==
    {NoFile, File(CborEncode(StaleRecord)), File(JsonEncode(TextRecord)),
     File(CborEncode(EmptyOrderRecord))}

Init ==
    /\ HashIdle
    /\ XferIdle
    /\ ToolIdle
    /\ ConcIdle
    /\ store \in CacheEnvs
    /\ \E p \in CachePaths, c \in InitialFiles : fs = [EmptyDir EXCEPT ![p] = c]
    /\ out = [op |-> "none"]

AutoPrewarm == Prewarm("none")

\* a cache file is damaged on disk between two runs
DamageCache ==
    /\ \E p \in CachePaths :
        /\ fs[p].exists
        /\ Decodes(fs[p].data)
        /\ \E g \in Damaged(fs[p].data) :
            /\ fs' = [fs EXCEPT ![p] = File(g)]
            /\ out' = [op |-> "damage", path |-> p]
    /\ UNCHANGED <<store, hashVars, xferVars, concVars, toolVars>>

Next == AutoPrewarm \/ DamageCache

Spec == Init /\ [][Next]_vars

\* C8: a loaded record is taken as valid exactly when its derivations_hash equals the
\* current hash, whatever its created_at
C8_ValidIffHashEqual ==
    (out.op = "prewarm" /\ out.loaded) =>
        (out.hit <=> out.cached.derivations_hash = out.hash)

C8_Witness ==
    /\ out.op = "prewarm" /\ out.loaded /\ out.hit
    /\ out.cached.created_at > out.now

C8_WitnessStale ==
    /\ out.op = "prewarm" /\ out.loaded /\ ~out.hit
    /\ out.cached.created_at > out.now

\* a run that rebuilt and saved, followed at once by a run over the same roots in any order
C9_HitStep ==
    (/\ out.op = "prewarm" /\ out.built /\ out.saveStatus = "Ok"
     /\ out'.op = "prewarm" /\ out'.roots \in PermsOfSeq(out.roots)) =>
        /\ out'.status = "Ok"
        /\ out'.hit
        /\ out'.order = out.order
        /\ ~out'.built /\ out'.queries = 0 /\ ~out'.warned
        /\ out'.saveStatus = "None"
        /\ fs' = fs

\* a run that loads a record made for another fingerprint
C9_StaleStep ==
    (out'.op = "prewarm" /\ out'.loaded /\ out'.cached.derivations_hash # out'.hash) =>
        /\ ~out'.hit
        /\ out'.built
        /\ out'.saveStatus = "Ok"
        /\ CborDecode(fs'[out'.file].data).ok
        /\ CborDecode(fs'[out'.file].data).val.derivations_hash = out'.hash
        /\ CborDecode(fs'[out'.file].data).val.build_order = out'.order

\* C9: the run that follows a rebuild-and-save with the same root set takes the hit path,
\* uses the saved build_order and neither queries, sorts nor writes; a stored record with
\* another derivations_hash is never used and is replaced by the rebuilt one
C9_HitAfterRebuild == [][C9_HitStep /\ C9_StaleStep]_vars

\* a hit on a record that a rebuild saved (the records of InitialFiles have no edges)
C9_Witness ==
    /\ out.op = "prewarm" /\ out.hit
    /\ out.roots = <<<<98>>, <<97>>>>
    /\ DOMAIN out.cached.edges # {}
    /\ Len(out.order) >= 2
    /\ out.order = out.cached.build_order

C9_WitnessReplaced ==
    /\ out.op = "prewarm" /\ out.loaded /\ out.built
    /\ out.cached.derivations_hash # out.hash
    /\ CborDecode(fs[out.file].data).val.derivations_hash = out.hash

(***************************************************************************)
(* Specification of the program over repeated runs in which one file       *)
(* operation of a run may fail: fs::read in load, or create_dir_all,       *)
(* fs::write or fs::rename in save                                         *)
(***************************************************************************)
\* the stores of CacheEnvs in which "a" has the requisites "p" and "q"
IOEnvs == {e \in CacheEnvs : e.reqs[<<97>>] = <<<<112>>, <<113>>>>}

InitIO ==
    /\ HashIdle
    /\ XferIdle
    /\ ToolIdle
    /\ ConcIdle
    /\ store \in IOEnvs
    /\ \E p \in CachePaths, c \in InitialFiles : fs = [EmptyDir EXCEPT ![p] = c]
    /\ out = [op |-> "none"]

\* cache.rs:39
ReadFails == Prewarm("read")

\* cache.rs:62
MkdirFails == Prewarm("mkdir")

\* cache.rs:70
WriteFails == Prewarm("write")

\* cache.rs:71
RenameFails == Prewarm("rename")

NextIO == AutoPrewarm \/ ReadFails \/ MkdirFails \/ WriteFails \/ RenameFails

SpecIO == InitIO /\ [][NextIO]_vars

\* C5: load never returns an error, so no run of auto_prewarm fails because of the
\* cache file
C5_LoadNeverFails ==
    out.op = "prewarm" => (out.loadStatus # "Err" /\ out.status = "Ok")

\* what the run returns when the save succeeds, for some iteration order and sort order
SameAsSaved(o, b) ==
    /\ b.status = "Ok" /\ b.saveStatus = "Ok"
    /\ b.paths = o.paths /\ b.order = o.order /\ b.edges = o.edges

\* C10: when save fails at create_dir_all, fs::write or fs::rename, the build still returns
\* Ok, with the paths, build order and edges it returns when the save succeeds
C10_SaveFailureNotPropagated ==
    (out.op = "prewarm" /\ out.built /\ out.saveStatus = "Err") =>
        /\ out.status = "Ok"
        /\ \E idx \in Perms(SeqToSet(stream_dependency_graph(store, out.roots))) :
            \E bo \in build_orders(build_graph_from_paths(store,
                                     stream_dependency_graph(store, out.roots), idx)) :
                SameAsSaved(out, build_and_cache_graph(store, fs, out.roots, out.hash, out.file,
                                                       out.now, idx, bo, "none"))

\* the rename failed: the complete temporary file is left beside the destination
C10_Witness ==
    /\ out.op = "prewarm" /\ out.built /\ out.saveStatus = "Err" /\ out.status = "Ok"
    /\ Len(out.order) = 2
    /\ fs[with_extension(out.file, "tmp")].exists
    /\ CborDecode(fs[with_extension(out.file, "tmp")].data).ok
    /\ ~fs[out.file].exists

(***************************************************************************)
(* Specification of concurrent saves to one cache path, step by step       *)
(* (cache.rs:59-74), with a reader that loads the path at any moment.      *)
(* A name of the directory refers to an inode; fs::write opens the name    *)
(* (creating or truncating it) and then writes through its descriptor;     *)
(* fs::rename moves the inode from one name to the other.                  *)
(***************************************************************************)
NumWriters == 2

Writers == 1..NumWriters

ConcTarget == CodecTarget

\* cache.rs:69
ConcTemp == with_extension(ConcTarget, "tmp")

\* the record a run left earlier, and the record writer w saves
EarlierRecord ==
    DependencyCache(0, hash_derivations(<<<<97>>, <<98>>>>), <<<<112>>>>, <<<<112>>>>,
                    [k \in {<<112>>} |-> <<>>], EmptyMap)

WriterRecord(w) == [EarlierRecord EXCEPT !.created_at = w]

\* cache.rs:66
WriterBytes(w) == CborEncode(WriterRecord(w))

\* write_all hands the bytes to the file in pieces
ChunkLen(bytes) == (Len(bytes) + 1) \div 2

\* write(fd, chunk) at offset off of a file holding data
WriteAt(data, off, chunk) ==
    [i \in 1..(IF Len(data) > off + Len(chunk) THEN Len(data) ELSE off + Len(chunk)) |->
        IF i > off /\ i <= off + Len(chunk) THEN chunk[i - off]
        ELSE IF i <= Len(data) THEN data[i] ELSE 0]

\* the directory as load sees it
FilesOf(d, ino) == [p \in DOMAIN d |-> IF d[p] = 0 THEN NoFile ELSE File(ino[d[p]])]

InitConc ==
    /\ HashIdle
    /\ XferIdle
    /\ ToolIdle
    /\ CacheIdle
    /\ \/ dir = [p \in CodecPaths |-> 0] /\ inodes = <<>>
       \/ dir = [p \in CodecPaths |-> IF p = ConcTarget THEN 1 ELSE 0]
          /\ inodes = <<CborEncode(EarlierRecord)>>
    /\ writers = [w \in Writers |-> [pc |-> "start", fd |-> 0, off |-> 0]]

\* cache.rs:61-63
CreateDirAll(w) ==
    /\ writers[w].pc = "start"
    /\ writers' = [writers EXCEPT ![w].pc = "created"]
    /\ UNCHANGED <<dir, inodes, hashVars, xferVars, cacheVars, toolVars>>

\* cache.rs:70, fs::write: File::create of the temporary name
OpenTemp(w) ==
    /\ writers[w].pc = "created"
    /\ IF dir[ConcTemp] = 0
       THEN /\ inodes' = Append(inodes, <<>>)
            /\ dir' = [dir EXCEPT ![ConcTemp] = Len(inodes) + 1]
            /\ writers' = [writers EXCEPT ![w] = [pc |-> "writing", fd |-> Len(inodes) + 1, off |-> 0]]
       ELSE /\ inodes' = [inodes EXCEPT ![dir[ConcTemp]] = <<>>]
            /\ dir' = dir
            /\ writers' = [writers EXCEPT ![w] = [pc |-> "writing", fd |-> dir[ConcTemp], off |-> 0]]
    /\ UNCHANGED <<hashVars, xferVars, cacheVars, toolVars>>

Chunk(bytes, off) ==
    SubSeq(bytes, off + 1,
           IF off + ChunkLen(bytes) > Len(bytes) THEN Len(bytes) ELSE off + ChunkLen(bytes))

\* cache.rs:70, fs::write: one write of write_all
WriteChunk(w) ==
    /\ writers[w].pc = "writing"
    /\ inodes' = [inodes EXCEPT ![writers[w].fd] =
                     WriteAt(@, writers[w].off, Chunk(WriterBytes(w), writers[w].off))]
    /\ writers' = [writers EXCEPT
                     ![w].off = @ + Len(Chunk(WriterBytes(w), writers[w].off)),
                     ![w].pc = IF writers[w].off + Len(Chunk(WriterBytes(w), writers[w].off))
                                    = Len(WriterBytes(w))
                               THEN "written" ELSE "writing"]
    /\ UNCHANGED <<dir, hashVars, xferVars, cacheVars, toolVars>>

\* cache.rs:71, fs::rename: fails when the temporary name is gone
RenameTemp(w) ==
    /\ writers[w].pc = "written"
    /\ IF dir[ConcTemp] = 0
       THEN /\ writers' = [writers EXCEPT ![w].pc = "failed"]
            /\ dir' = dir
       ELSE /\ writers' = [writers EXCEPT ![w].pc = "done"]
            /\ dir' = [dir EXCEPT ![ConcTarget] = dir[ConcTemp], ![ConcTemp] = 0]
    /\ UNCHANGED <<inodes, hashVars, xferVars, cacheVars, toolVars>>

\* the writer's process is stopped between two steps of save
Stop(w) ==
    /\ writers[w].pc \in {"start", "created", "writing", "written"}
    /\ writers' = [writers EXCEPT ![w].pc = "stopped"]
    /\ UNCHANGED <<dir, inodes, hashVars, xferVars, cacheVars, toolVars>>

ConcLoaded(l) ==
    /\ out' = [op |-> "load", status |-> l.status, some |-> l.some, val |-> l.val,
               before |-> FilesOf(dir, inodes)[ConcTarget]]
    /\ dir' = [dir EXCEPT ![ConcTarget] = IF l.fs[ConcTarget].exists THEN @ ELSE 0]

\* a reader calls DependencyCache::load(ConcTarget)
ConcLoad ==
    /\ ConcLoaded(load(FilesOf(dir, inodes), ConcTarget, "none"))
    /\ UNCHANGED <<inodes, writers, hashVars, xferVars, store, fs, toolVars>>

NextConc ==
    \/ \E w \in Writers :
        CreateDirAll(w) \/ OpenTemp(w) \/ WriteChunk(w) \/ RenameTemp(w) \/ Stop(w)
    \/ ConcLoad

SpecConc == InitConc /\ [][NextConc]_vars

CompleteRecords == {CborEncode(EarlierRecord)} \cup {WriterBytes(w) : w \in Writers}

\* C6: under every interleaving of saves and loads of one path, the destination is
\* absent or holds a complete record, the earlier one or a new one, and that is all a
\* reader finds there
C6_NoHalfWritten ==
    /\ dir[ConcTarget] # 0 => inodes[dir[ConcTarget]] \in CompleteRecords
    /\ (out.op = "load" /\ out.before.exists) => out.before.data \in CompleteRecords

(***************************************************************************)
(* ChunkedDownloader (src/src/chunked_download.rs)                         *)
(*                                                                         *)
(* Sizes are scaled: a u64 has U64Bits bits (64 in the source) and a chunk *)
(* has CHUNK_SIZE bytes (4_194_304 in the source).                         *)
(***************************************************************************)
U64Bits == 6

U64Mod == 2 ^ U64Bits

CHUNK_SIZE == 2

Min(a, b) == IF a < b THEN a ELSE b

Max(a, b) == IF a > b THEN a ELSE b

\* ChunkStatus (chunked_download.rs:17-22)
Pending == [tag |-> "Pending", data |-> <<>>, err |-> ""]

Downloading == [tag |-> "Downloading", data |-> <<>>, err |-> ""]

Completed(data) == [tag |-> "Completed", data |-> data, err |-> ""]

Failed(err) == [tag |-> "Failed", data |-> <<>>, err |-> err]

NoBaseline == <<>>

NoOutput == [exists |-> FALSE, data |-> <<>>]

\* chunked_download.rs:60, without the overflow of the sum
num_chunks_of(sum) == sum \div CHUNK_SIZE

\* the downloader with num_chunks chunks, before download is called
Downloader(total_size, initial_concurrent, num_chunks, panicked) ==
    [session |-> [phase |-> "new", panicked |-> panicked,
                  total_size |-> total_size, chunk_size |-> CHUNK_SIZE,
                  initial_concurrent |-> initial_concurrent,
                  num_chunks |-> num_chunks, permits |-> initial_concurrent,
                  adjust_task |-> "none", ticks |-> 0, lowered |-> FALSE,
                  result |-> [status |-> "none", msg |-> <<>>], file |-> NoOutput],
     chunks |-> [i \in 0..(num_chunks - 1) |-> Pending],
     throttle |-> [max_concurrent |-> initial_concurrent, latencies |-> <<>>,
                   baseline_latency |-> NoBaseline]]

\* ChunkedDownloader::new (chunked_download.rs:57-79). total_size + CHUNK_SIZE - 1 is a
\* u64 sum: when it overflows, the build either panics (overflow = "panic", overflow
\* checks on) or wraps (overflow = "wrap")
new(total_size, initial_concurrent, overflow) ==
    IF total_size + CHUNK_SIZE - 1 >= U64Mod /\ overflow = "panic"
    THEN Downloader(total_size, initial_concurrent, 0, TRUE)
    ELSE Downloader(total_size, initial_concurrent,
                    num_chunks_of((total_size + CHUNK_SIZE - 1) % U64Mod), FALSE)

\* chunked_download.rs:160-162
chunk_start(d, chunk_idx) == chunk_idx * d.chunk_size

chunk_end(d, chunk_idx) ==
    Min(chunk_start(d, chunk_idx) + d.chunk_size - 1, d.total_size - 1)

chunk_len(d, chunk_idx) == chunk_end(d, chunk_idx) - chunk_start(d, chunk_idx) + 1

(***************************************************************************)
(* Specification of ChunkedDownloader::new over every u64 total_size >= 1  *)
(***************************************************************************)
OtherIdle == HashIdle /\ CacheIdle /\ ConcIdle /\ ToolIdle

InitChunks ==
    /\ OtherIdle
    /\ uploads = <<>>
    /\ \E t \in 1..(U64Mod - 1) :
           session = [phase |-> "args", total_size |-> t, initial_concurrent |-> 1]
    /\ chunks = <<>> /\ workers = <<>> /\ throttle = <<>>

Constructed(d) ==
    /\ session' = d.session
    /\ chunks' = d.chunks
    /\ throttle' = d.throttle
    /\ UNCHANGED <<workers, uploads, hashVars, cacheVars, concVars, toolVars>>

\* ChunkedDownloader::new(total_size, initial_concurrent)
Construct ==
    /\ session.phase = "args"
    /\ \E overflow \in {"wrap", "panic"} :
           Constructed(new(session.total_size, session.initial_concurrent, overflow))

NextChunks == Construct

SpecChunks == InitChunks /\ [][NextChunks]_vars

\* ceil(total_size / chunk_size) in unbounded arithmetic
CeilDiv(a, b) == (a + b - 1) \div b

\* the ranges of the chunks are contiguous from byte 0 and end at total_size - 1
RangesPartition(d) ==
    /\ d.num_chunks >= 1
    /\ chunk_start(d, 0) = 0
    /\ chunk_end(d, d.num_chunks - 1) = d.total_size - 1
    /\ \A i \in 0..(d.num_chunks - 1) :
        /\ chunk_start(d, i) <= chunk_end(d, i)
        /\ i > 0 => chunk_start(d, i) = chunk_end(d, i - 1) + 1
        /\ i < d.num_chunks - 1 => chunk_len(d, i) = d.chunk_size
        /\ chunk_len(d, i) <= d.chunk_size

\* C11: for every total_size >= 1 the downloader has ceil(total_size / chunk_size) chunks
\* whose ranges are contiguous, disjoint and cover [0, total_size), only the last one
\* possibly shorter
C11_ChunksPartition ==
    session # <<>> /\ session.phase = "new" =>
        /\ ~session.panicked
        /\ session.num_chunks = CeilDiv(session.total_size, session.chunk_size)
        /\ DOMAIN chunks = 0..(session.num_chunks - 1)
        /\ RangesPartition(session)

\* the same, for the sizes whose sum with CHUNK_SIZE - 1 fits a u64
C11_FitsU64 ==
    session # <<>> /\ session.phase = "new"
        /\ session.total_size + CHUNK_SIZE - 1 < U64Mod => C11_ChunksPartition

(***************************************************************************)
(* AdaptiveThrottler::adjust_concurrency (chunked_download.rs:366-415) and *)
(* the latency samples (chunked_download.rs:219-226). Durations are whole   *)
(* numbers of nanoseconds. The sample counts are scaled: MinSamples is 10, *)
(* RecentWindow 20 and KeepSamples 50 in the source.                       *)
(***************************************************************************)
MinSamples == 2

RecentWindow == 3

KeepSamples == 4

FLOOR == 5

CEILING == 500

STEP == 5

ShrinkByStep(current) == current - STEP

\* (current as f64 * 0.8) as usize
Shrink(current) == (current * 8) \div 10

RECURSIVE Sum(_)
Sum(xs) == IF xs = <<>> THEN 0 ELSE Head(xs) + Sum(Tail(xs))

\* chunked_download.rs:376-381: the last RecentWindow samples
Recent(latencies) ==
    SubSeq(latencies, Max(1, Len(latencies) - RecentWindow + 1), Len(latencies))

\* chunked_download.rs:383: Duration / u32 truncates to the nanosecond
Avg(recent) == Sum(recent) \div Len(recent)

\* chunked_download.rs:221-225
push_latency(th, latency) ==
    [th EXCEPT !.latencies =
        IF Len(Append(@, latency)) > KeepSamples THEN Tail(Append(@, latency))
        ELSE Append(@, latency)]

\* chunked_download.rs:391-411, with the baseline of line 389
adjust_with(th, avg_latency, baseline) ==
    IF avg_latency > baseline * 2
    THEN IF th.max_concurrent > FLOOR
         THEN [th EXCEPT !.max_concurrent = Max(FLOOR, Shrink(th.max_concurrent)),
                         !.baseline_latency = <<baseline>>]
         ELSE [th EXCEPT !.baseline_latency = <<baseline>>]
    ELSE IF 2 * avg_latency < 3 * baseline
    THEN IF th.max_concurrent < CEILING
         THEN [th EXCEPT !.max_concurrent = Min(CEILING, th.max_concurrent + STEP),
                         !.baseline_latency = <<baseline>>]
         ELSE [th EXCEPT !.baseline_latency = <<baseline>>]
    ELSE [th EXCEPT !.baseline_latency = <<baseline>>]

adjust_rebase(th, avg_latency) == adjust_with(th, avg_latency, avg_latency)

\* chunked_download.rs:388-389: get_or_insert_with
adjust_avg(th, avg_latency) ==
    adjust_with(th, avg_latency,
                IF th.baseline_latency = NoBaseline THEN avg_latency
                ELSE th.baseline_latency[1])

adjust_any_sample(th) ==
    IF th.latencies = <<>> THEN th ELSE adjust_avg(th, Avg(Recent(th.latencies)))

\* AdaptiveThrottler::adjust_concurrency
adjust_concurrency(th) ==
    IF Len(th.latencies) < MinSamples THEN th
    ELSE adjust_avg(th, Avg(Recent(th.latencies)))

(***************************************************************************)
(* ChunkedDownloader::download (chunked_download.rs:133-304): the task of  *)
(* every chunk, the adjustment task, and the end of the session            *)
(***************************************************************************)
MaxSize == 7

\* 2 chunks, and 4 chunks of which the last is shorter
SessionSizes == {3, MaxSize}

InitialLimits == {1, 2}

MaxTicks == 2

Latencies == {1, 7}

Outcomes ==
    {[kind |-> "ok", latency |-> l] : l \in Latencies}
        \cup {[kind |-> "http", latency |-> 7], [kind |-> "body", latency |-> 1],
              [kind |-> "send", latency |-> 0]}

\* the object on the server: the byte at offset k is k + 1
SourceObject(total_size) == [k \in 1..total_size |-> k]

\* the bytes of the range "bytes=start-end" (chunked_download.rs:205)
RangeOf(d, chunk_idx) ==
    SubSeq(SourceObject(d.total_size), chunk_start(d, chunk_idx) + 1, chunk_end(d, chunk_idx) + 1)

\* Outcomes, what the server does with a request: kind "ok" answers the range, "http"
\* answers an error status, "body" breaks off while the body is read, "send" fails before
\* any answer

status_reset(d, chunk_idx, o) ==
    IF o.kind = "ok" THEN Completed(RangeOf(d, chunk_idx)) ELSE Pending

\* chunked_download.rs:235-285
status_after(d, chunk_idx, o) ==
    IF o.kind = "ok" THEN Completed(RangeOf(d, chunk_idx))
    ELSE IF o.kind = "http" THEN Failed("HTTP 500")
    ELSE IF o.kind = "body" THEN Failed("body")
    ELSE Failed("send")

\* chunked_download.rs:215-226: a latency sample for every answer
samples_after(th, o) ==
    IF o.kind = "send" THEN th ELSE push_latency(th, o.latency)

abort_none(adjust_task) == adjust_task

\* chunked_download.rs:296
abort(adjust_task) == "aborted"

\* chunked_download.rs:312-329: the file after the chunks from chunk_idx on, and the result
RECURSIVE reassemble_from(_, _, _, _)
reassemble_from(d, ch, chunk_idx, data) ==
    IF chunk_idx = d.num_chunks
    THEN [status |-> "Ok", msg |-> <<>>, data |-> data]
    ELSE IF ch[chunk_idx].tag = "Completed"
    THEN reassemble_from(d, ch, chunk_idx + 1,
                         WriteAt(data, chunk_start(d, chunk_idx), ch[chunk_idx].data))
    ELSE IF ch[chunk_idx].tag = "Failed"
    THEN [status |-> "Err", msg |-> <<"failed", chunk_idx, ch[chunk_idx].err>>, data |-> data]
    ELSE [status |-> "Err", msg |-> <<"not completed", chunk_idx>>, data |-> data]

\* ChunkedDownloader::reassemble_chunks
reassemble_chunks(d, ch) == reassemble_from(d, ch, 0, <<>>)

\* chunked_download.rs:146-175: the adjustment task and one task per chunk are spawned
StartDownload ==
    /\ session.phase = "new"
    /\ ~session.panicked
    /\ session' = [session EXCEPT !.phase = "running", !.adjust_task = "running"]
    /\ workers' = [i \in 0..(session.num_chunks - 1) |-> [pc |-> "start", current_max |-> 0]]
    /\ UNCHANGED <<chunks, throttle, uploads, hashVars, cacheVars, concVars, toolVars>>

\* chunked_download.rs:177
LoadLimit(i) ==
    /\ workers[i].pc = "start"
    /\ workers' = [workers EXCEPT ![i] = [pc |-> "loaded",
                                           current_max |-> throttle.max_concurrent]]
    /\ UNCHANGED <<session, chunks, throttle, uploads, hashVars, cacheVars, concVars, toolVars>>

\* chunked_download.rs:181-202: the permit is acquired; the task gives it back and
\* returns when the limit is now below the one it loaded, else the chunk is Downloading
Acquire(i) ==
    /\ workers[i].pc = "loaded"
    /\ session.permits > 0
    /\ IF throttle.max_concurrent < workers[i].current_max
       THEN /\ workers' = [workers EXCEPT ![i].pc = "returned"]
            /\ UNCHANGED <<session, chunks>>
       ELSE /\ workers' = [workers EXCEPT ![i].pc = "inflight"]
            /\ session' = [session EXCEPT !.permits = @ - 1]
            /\ chunks' = [chunks EXCEPT ![i] = Downloading]
    /\ UNCHANGED <<throttle, uploads, hashVars, cacheVars, concVars, toolVars>>

permit_kept(permits) == permits

\* chunked_download.rs:188, 287: _permit is dropped when the task ends
drop_permit(permits) == permits + 1

Resolved(i, o) ==
    /\ throttle' = samples_after(throttle, o)
    /\ chunks' = [chunks EXCEPT ![i] = status_after(session, i, o)]
    /\ workers' = [workers EXCEPT ![i].pc = "returned"]
    /\ session' = [session EXCEPT !.permits = drop_permit(@)]

RespondOf(i, outcomes) ==
    /\ workers[i].pc = "inflight"
    /\ \E o \in outcomes : Resolved(i, o)
    /\ UNCHANGED <<uploads, hashVars, cacheVars, concVars, toolVars>>

\* chunked_download.rs:208-287: the answer to the range request of chunk i
Respond(i) == RespondOf(i, Outcomes)

\* session.lowered records whether the last change of max_concurrent was a decrease
Lowered(was, current, adjusted) ==
    IF adjusted < current THEN TRUE ELSE IF adjusted > current THEN FALSE ELSE was

semaphore_resized(permits, current, adjusted) == permits + Max(0, adjusted - current)

\* chunked_download.rs:391-411: adjust_concurrency stores max_concurrent and does not touch
\* the semaphore
semaphore_after(permits, current, adjusted) == permits

Ticked(th) ==
    /\ throttle' = th
    /\ session' = [session EXCEPT !.ticks = @ + 1,
                                  !.permits = semaphore_after(@, throttle.max_concurrent,
                                                              th.max_concurrent),
                                  !.lowered = Lowered(@, throttle.max_concurrent,
                                                      th.max_concurrent)]

Tick(max_ticks) ==
    /\ session.phase \in {"running", "returned"}
    /\ session.adjust_task = "running"
    /\ session.ticks < max_ticks
    /\ Ticked(adjust_concurrency(throttle))
    /\ UNCHANGED <<chunks, workers, uploads, hashVars, cacheVars, concVars, toolVars>>

\* chunked_download.rs:152-155: one tick of the adjustment task
AdjustTick == Tick(MaxTicks)

Returned(r) ==
    session' = [session EXCEPT !.phase = "returned",
                               !.adjust_task = abort(@),
                               !.result = [status |-> r.status, msg |-> r.msg],
                               !.file = [exists |-> TRUE, data |-> r.data]]

\* chunked_download.rs:293-303: join_all, abort, reassemble_chunks, return
Finish ==
    /\ session.phase = "running"
    /\ \A i \in DOMAIN workers : workers[i].pc = "returned"
    /\ Returned(reassemble_chunks(session, chunks))
    /\ UNCHANGED <<chunks, workers, throttle, uploads, hashVars, cacheVars, concVars, toolVars>>

InitSession ==
    /\ OtherIdle
    /\ uploads = <<>>
    /\ workers = <<>>
    /\ \E t \in SessionSizes, c \in InitialLimits :
        /\ session = new(t, c, "wrap").session
        /\ chunks = new(t, c, "wrap").chunks
        /\ throttle = new(t, c, "wrap").throttle

NextSession ==
    \/ StartDownload
    \/ \E i \in DOMAIN workers : LoadLimit(i) \/ Acquire(i) \/ Respond(i)
    \/ AdjustTick
    \/ Finish

SpecSession == InitSession /\ [][NextSession]_vars

SessionReturned == session # <<>> /\ session.phase = "returned"

ChunksWith(tag) == {i \in DOMAIN chunks : chunks[i].tag = tag}

InFlight == {i \in DOMAIN workers : workers[i].pc = "inflight"}

\* C12: when every range request made was answered with the bytes of its range, the file
\* download leaves is the source object, byte for byte
C12_ByteIdentical ==
    (SessionReturned /\ ChunksWith("Failed") = {}) =>
        /\ session.result.status = "Ok"
        /\ session.file.exists
        /\ session.file.data = SourceObject(session.total_size)

\* C13: when download returns, every chunk is Completed or Failed
C13_AllResolved ==
    SessionReturned => \A i \in DOMAIN chunks : chunks[i].tag \in {"Completed", "Failed"}

FirstFailed == CHOOSE i \in ChunksWith("Failed") : \A j \in ChunksWith("Failed") : i <= j

\* C14: download returns Ok only if every chunk is Completed, and with a Failed chunk it
\* returns the error that names the lowest Failed chunk and that chunk's reason
C14_FirstFailedNamed ==
    SessionReturned =>
        /\ session.result.status = "Ok" => ChunksWith("Completed") = DOMAIN chunks
        /\ ChunksWith("Failed") # {} =>
            /\ session.result.status = "Err"
            /\ session.result.msg = <<"failed", FirstFailed, chunks[FirstFailed].err>>

\* C15: a result is reported only when every chunk's task has finished, and by then every
\* sibling of a Failed chunk has been requested
C15_SiblingsRequested ==
    /\ (session # <<>> /\ session.result.status # "none") =>
           \A i \in DOMAIN workers : workers[i].pc = "returned"
    /\ (SessionReturned /\ ChunksWith("Failed") # {}) => ChunksWith("Pending") = {}

\* C16: the payloads held in memory are never more than the requests in flight
C16_PayloadsBounded ==
    (session # <<>> /\ session.phase \in {"running", "returned"}) =>
        Cardinality(ChunksWith("Completed")) <= Cardinality(InFlight)

\* once download has returned, no tick of the adjustment task happens and
\* max_concurrent keeps its value
C17_NoTickAfterReturn ==
    SessionReturned => (throttle' = throttle /\ session'.ticks = session.ticks)

C17_WitnessOk ==
    /\ SessionReturned
    /\ session.result.status = "Ok"
    /\ session.ticks >= 1 /\ session.ticks < MaxTicks
    /\ Len(throttle.latencies) >= MinSamples

(***************************************************************************)
(* The throttler on its own: latency samples arrive and the adjustment     *)
(* task ticks, from every initial limit in ThrottleLimits                  *)
(***************************************************************************)
ThrottleLimits == {FLOOR, FLOOR + 1, FLOOR + 2, 250, CEILING - 1, CEILING}

\* with a baseline of 2, a mean of 2 is below 1.5 times the baseline, 3 is 1.5 times,
\* 4 is twice and 5 is above twice the baseline
ThrottleLatencies == {2, 3, 4, 5}

InitThrottle ==
    /\ OtherIdle
    /\ \E initial_concurrent \in ThrottleLimits :
        /\ throttle = Downloader(1, initial_concurrent, 1, FALSE).throttle
        /\ session = [phase |-> "throttle", op |-> "new", prev |-> initial_concurrent]
    /\ chunks = <<>>
    /\ workers = <<>>
    /\ uploads = <<>>

\* chunked_download.rs:219-226
PushSample ==
    /\ session.phase = "throttle"
    /\ \E latency \in ThrottleLatencies : throttle' = push_latency(throttle, latency)
    /\ session' = [session EXCEPT !.op = "push", !.prev = throttle.max_concurrent]
    /\ UNCHANGED <<hashVars, cacheVars, concVars, chunks, workers, uploads, toolVars>>

\* chunked_download.rs:150-156: one turn of the adjustment task's loop
Adjust ==
    /\ session.phase = "throttle"
    /\ throttle' = adjust_concurrency(throttle)
    /\ session' = [session EXCEPT !.op = "adjust", !.prev = throttle.max_concurrent]
    /\ UNCHANGED <<hashVars, cacheVars, concVars, chunks, workers, uploads, toolVars>>

NextThrottle == PushSample \/ Adjust

SpecThrottle == InitThrottle /\ [][NextThrottle]_vars

BaselineSet == throttle.baseline_latency # NoBaseline

\* twice the mean of the recent samples and twice the baseline, as whole numbers
Mean2 == 2 * Avg(Recent(throttle.latencies))

Baseline2 == 2 * throttle.baseline_latency[1]

C18_AdjustStep ==
    (session.phase = "throttle" /\ session'.op = "adjust" /\ BaselineSet) =>
        /\ Mean2 > 2 * Baseline2 =>
            /\ throttle'.max_concurrent = Max(5, (8 * throttle.max_concurrent) \div 10)
            /\ throttle.max_concurrent > 5 => throttle'.max_concurrent < throttle.max_concurrent
            /\ throttle.max_concurrent = 5 => throttle'.max_concurrent = 5
        /\ 2 * Mean2 < 3 * Baseline2 =>
            /\ throttle'.max_concurrent = Min(500, throttle.max_concurrent + STEP)
            /\ throttle.max_concurrent = 500 => throttle'.max_concurrent = 500
        /\ (2 * Mean2 >= 3 * Baseline2 /\ Mean2 <= 2 * Baseline2) =>
            throttle'.max_concurrent = throttle.max_concurrent

\* C18: with the baseline set and the limit within 5..500, an adjust step lowers the limit
\* to max(5, floor(0.8 * limit)) when the recent mean is above twice the baseline (strictly
\* lower until 5, where it stays), raises it by the fixed step up to 500 when the mean is
\* below 1.5 times the baseline (where it stays), and leaves it alone in between; the limit
\* never leaves 5..500
C18_AdjustRule ==
    /\ [](session # <<>> /\ session.phase = "throttle" =>
              throttle.max_concurrent \in FLOOR..CEILING)
    /\ [][C18_AdjustStep]_vars

\* an adjust step has lowered the limit from above 5 to the floor
C18_Witness ==
    /\ session # <<>> /\ session.phase = "throttle" /\ session.op = "adjust"
    /\ BaselineSet /\ Mean2 > 2 * Baseline2
    /\ session.prev > FLOOR /\ session.prev < 250
    /\ throttle.max_concurrent = FLOOR

\* an adjust step at the floor with the mean above twice the baseline left the limit at 5
C18_WitnessFloorStays ==
    /\ session # <<>> /\ session.phase = "throttle" /\ session.op = "adjust"
    /\ BaselineSet /\ Mean2 > 2 * Baseline2
    /\ session.prev = FLOOR /\ throttle.max_concurrent = FLOOR

\* an adjust step has raised the limit to the ceiling, and one at the ceiling left it there
C18_WitnessCeiling ==
    /\ session # <<>> /\ session.phase = "throttle" /\ session.op = "adjust"
    /\ BaselineSet /\ 2 * Mean2 < 3 * Baseline2
    /\ session.prev \in {CEILING - 1, CEILING} /\ throttle.max_concurrent = CEILING

\* an adjust step with the mean at exactly 1.5 times or twice the baseline changed nothing
C18_WitnessBand ==
    /\ session # <<>> /\ session.phase = "throttle" /\ session.op = "adjust"
    /\ BaselineSet /\ Mean2 \in {Baseline2 + throttle.baseline_latency[1], 2 * Baseline2}
    /\ session.prev = throttle.max_concurrent
    /\ throttle.max_concurrent \in (FLOOR + 1)..(CEILING - 1)

(***************************************************************************)
(* A download of AdmitChunks chunks with AdmitLimit permits, on a server   *)
(* that answers every request, with the tasks polled in the order they     *)
(* were spawned, the permits handed out in the order of the requests      *)
(* (tokio's semaphore is fair) and the answers arriving in that order      *)
(***************************************************************************)
AdmitChunks == 9

AdmitLimit == 6

AdmitTicks == 4

\* the server answers the first MinSamples chunks fast and every later one slowly
AdmitOutcomes(i) ==
    {o \in Outcomes : o.kind = "ok" /\ (o.latency = 1 <=> i < MinSamples)}

InitAdmit ==
    /\ OtherIdle
    /\ uploads = <<>>
    /\ workers = <<>>
    /\ session = new(AdmitChunks * CHUNK_SIZE - 1, AdmitLimit, "wrap").session
    /\ chunks = new(AdmitChunks * CHUNK_SIZE - 1, AdmitLimit, "wrap").chunks
    /\ throttle = new(AdmitChunks * CHUNK_SIZE - 1, AdmitLimit, "wrap").throttle

LoadInOrder(i) ==
    /\ \A j \in 0..(i - 1) : workers[j].pc # "start"
    /\ LoadLimit(i)

AcquireInOrder(i) ==
    /\ \A j \in 0..(i - 1) : workers[j].pc \notin {"start", "loaded"}
    /\ Acquire(i)

\* the server answers the requests in the order it got them
AdmitRespond(i) ==
    /\ \A j \in 0..(i - 1) : workers[j].pc = "returned"
    /\ RespondOf(i, AdmitOutcomes(i))

AdmitTick == Tick(AdmitTicks)

NextAdmit ==
    \/ StartDownload
    \/ \E i \in DOMAIN workers : LoadInOrder(i)
    \/ \E i \in DOMAIN workers : AcquireInOrder(i)
    \/ \E i \in DOMAIN workers : AdmitRespond(i)
    \/ AdmitTick
    \/ Finish

SpecAdmit == InitAdmit /\ [][NextAdmit]_vars

Admitted(i) == workers[i].pc # "inflight" /\ workers'[i].pc = "inflight"

C19_Step ==
    (session # <<>> /\ session.phase = "running") =>
        /\ throttle'.max_concurrent < throttle.max_concurrent =>
            (workers' = workers /\ chunks' = chunks)
        /\ \A i \in DOMAIN workers :
            (session.lowered /\ Admitted(i)) =>
                Cardinality(InFlight) < throttle.max_concurrent

\* C19: an adjust step that lowers the limit to L leaves the chunks in flight as they are,
\* and while L is the limit a chunk becomes Downloading only when fewer than L are in flight
C19_AdmissionOnly == [][C19_Step]_vars

(***************************************************************************)
(* upload_parallel (parallel.rs:50-158): one future per task, polled by    *)
(* buffer_unordered(concurrency) behind a semaphore of concurrency permits *)
(***************************************************************************)
MaxTasks == 3

\* config.concurrency is followed from 1 up to this value (4 by default, parallel.rs:27)
MaxConcurrency == 2

\* config.timeout_secs, in seconds (300 by default, parallel.rs:28)
TimeoutSecs == 2

\* the seconds a future is followed while it is not yet admitted
MaxWait == TimeoutSecs

UploadPaths == {"a", "b"}

\* what upload_single does within the timeout: Ok, Err, or nothing
UploadOutcomes == {"ok", "err", "timeout"}

TaskLists == UNION {[1..n -> UploadPaths] : n \in 0..MaxTasks}

\* parallel.rs:90-110
UploadResult(store_path, o, duration_secs) ==
    [store_path |-> store_path,
     success |-> (o = "ok"),
     error |-> IF o = "ok" THEN "" ELSE IF o = "err" THEN "upload failed"
               ELSE "Upload timeout",
     duration_secs |-> duration_secs]

collect_successes(results, r) == IF r.success THEN Append(results, r) ELSE results

\* parallel.rs:135-138: the stream yields the result and collect keeps it
collect(results, r) == Append(results, r)

\* parallel.rs:141-142
Count(results, success) ==
    Cardinality({k \in DOMAIN results : results[k].success = success})

limit_plus_one(u) == u.concurrency + 1

\* parallel.rs:70 and 136: config.concurrency sizes the semaphore and the buffer
limit_of(u) == u.concurrency

expired_since_created(waited, elapsed) == waited + elapsed >= TimeoutSecs

\* parallel.rs:84-88: the timeout is created after the permit is acquired, so it runs on
\* the time since admission
expired(waited, elapsed) == elapsed >= TimeoutSecs

InitUpload ==
    /\ OtherIdle
    /\ session = <<>>
    /\ chunks = <<>>
    /\ workers = <<>>
    /\ throttle = <<>>
    /\ \E tasks \in TaskLists, concurrency \in 1..MaxConcurrency :
        uploads = [phase |-> "called", tasks |-> tasks, concurrency |-> concurrency,
                   permits |-> 0, next |-> 1,
                   futures |-> [i \in DOMAIN tasks |-> "created"],
                   waited |-> [i \in DOMAIN tasks |-> 0],
                   elapsed |-> [i \in DOMAIN tasks |-> 0],
                   outcomes |-> [i \in DOMAIN tasks |-> "none"],
                   results |-> <<>>, returned |-> FALSE,
                   successful |-> 0, failed |-> 0]

Buffered == {i \in DOMAIN uploads.futures : uploads.futures[i] \in {"waiting", "uploading"}}

Uploading == {i \in DOMAIN uploads.futures : uploads.futures[i] = "uploading"}

\* parallel.rs:54-57 and 70
UploadCall ==
    /\ uploads # <<>> /\ uploads.phase = "called"
    /\ uploads' = IF uploads.tasks = <<>>
                  THEN [uploads EXCEPT !.phase = "returned", !.returned = TRUE]
                  ELSE [uploads EXCEPT !.phase = "running", !.permits = limit_of(uploads)]
    /\ UNCHANGED <<hashVars, cacheVars, concVars, session, chunks, workers, throttle, toolVars>>

\* parallel.rs:135-136: buffer_unordered takes the next future while fewer than
\* concurrency are in its buffer
UploadPoll ==
    /\ uploads # <<>> /\ uploads.phase = "running"
    /\ uploads.next <= Len(uploads.tasks)
    /\ Cardinality(Buffered) < limit_of(uploads)
    /\ uploads' = [uploads EXCEPT !.futures[uploads.next] = "waiting", !.next = @ + 1]
    /\ UNCHANGED <<hashVars, cacheVars, concVars, session, chunks, workers, throttle, toolVars>>

\* parallel.rs:79-81: the permit, then start_time
UploadAcquire(i) ==
    /\ uploads.phase = "running"
    /\ uploads.futures[i] = "waiting"
    /\ uploads.permits > 0
    /\ uploads' = [uploads EXCEPT !.futures[i] = "uploading", !.permits = @ - 1]
    /\ UNCHANGED <<hashVars, cacheVars, concVars, session, chunks, workers, throttle, toolVars>>

\* the outcomes open to future i now: upload_single may end before the timeout has
\* expired, and the timeout fires when it has (parallel.rs:84-89)
OutcomesNow(i) ==
    IF expired(uploads.waited[i], uploads.elapsed[i]) THEN {"timeout"} ELSE {"ok", "err"}

\* parallel.rs:84-131: the upload ends or the timeout fires; the permit is dropped with
\* the future
UploadDone(i) ==
    /\ uploads.phase = "running"
    /\ uploads.futures[i] = "uploading"
    /\ \E o \in OutcomesNow(i) :
        uploads' = [uploads EXCEPT !.futures[i] = "done",
                                   !.outcomes[i] = o,
                                   !.permits = @ + 1,
                                   !.results = collect(@, UploadResult(uploads.tasks[i], o,
                                                                       uploads.elapsed[i]))]
    /\ UNCHANGED <<hashVars, cacheVars, concVars, session, chunks, workers, throttle, toolVars>>

\* a second passes: for the futures not yet admitted and for the uploads under way; a
\* timeout that has expired fires before more time passes
Second ==
    /\ uploads # <<>> /\ uploads.phase = "running"
    /\ \A i \in Uploading : ~expired(uploads.waited[i], uploads.elapsed[i])
    /\ uploads' = [uploads EXCEPT
                      !.waited = [i \in DOMAIN @ |->
                                     IF uploads.futures[i] \in {"created", "waiting"}
                                     THEN Min(MaxWait, @[i] + 1) ELSE @[i]],
                      !.elapsed = [i \in DOMAIN @ |->
                                      IF i \in Uploading THEN @[i] + 1 ELSE @[i]]]
    /\ UNCHANGED <<hashVars, cacheVars, concVars, session, chunks, workers, throttle, toolVars>>

\* parallel.rs:138-157: the stream is exhausted; the summary and Ok(results)
UploadReturn ==
    /\ uploads # <<>> /\ uploads.phase = "running"
    /\ uploads.next > Len(uploads.tasks)
    /\ Buffered = {}
    /\ uploads' = [uploads EXCEPT !.phase = "returned", !.returned = TRUE,
                                  !.successful = Count(uploads.results, TRUE),
                                  !.failed = Count(uploads.results, FALSE)]
    /\ UNCHANGED <<hashVars, cacheVars, concVars, session, chunks, workers, throttle, toolVars>>

NextUpload ==
    \/ UploadCall
    \/ UploadPoll
    \/ \E i \in DOMAIN uploads.futures : UploadAcquire(i)
    \/ \E i \in DOMAIN uploads.futures : UploadDone(i)
    \/ Second
    \/ UploadReturn

SpecUpload == InitUpload /\ [][NextUpload]_vars

UploadReturned == uploads # <<>> /\ uploads.phase = "returned"

\* the tasks with this store path whose own upload did or did not succeed
TasksWith(store_path, success) ==
    {i \in DOMAIN uploads.tasks :
        uploads.tasks[i] = store_path /\ ((uploads.outcomes[i] = "ok") <=> success)}

ResultsWith(store_path, success) ==
    {k \in DOMAIN uploads.results :
        uploads.results[k].store_path = store_path /\ uploads.results[k].success = success}

\* C20: upload_parallel returns Ok with one result per task (none for no task); every task
\* has run and is reported as a success exactly if its own upload succeeded, whatever
\* happened to the others; successful + failed is the number of tasks
C20_OneResultPerTask ==
    UploadReturned =>
        /\ uploads.returned
        /\ Len(uploads.results) = Len(uploads.tasks)
        /\ \A i \in DOMAIN uploads.tasks : uploads.outcomes[i] # "none"
        /\ \A store_path \in UploadPaths, success \in BOOLEAN :
            Cardinality(ResultsWith(store_path, success))
                = Cardinality(TasksWith(store_path, success))
        /\ uploads.successful + uploads.failed = Len(uploads.tasks)
        /\ uploads.successful = Cardinality({i \in DOMAIN uploads.tasks :
                                                uploads.outcomes[i] = "ok"})

\* one upload at a time: the first task failed, the second timed out, the third succeeded
C20_Witness ==
    /\ UploadReturned
    /\ uploads.concurrency = 1
    /\ Len(uploads.tasks) = 3
    /\ uploads.outcomes = <<"err", "timeout", "ok">>
    /\ uploads.results[3].success
    /\ uploads.successful = 1 /\ uploads.failed = 2

\* no task: an empty result
C20_WitnessEmpty == UploadReturned /\ uploads.tasks = <<>> /\ uploads.results = <<>>

UploadRunning == uploads # <<>> /\ uploads.phase = "running"

Unfinished == {i \in DOMAIN uploads.futures : uploads.futures[i] # "done"}

C21_Step ==
    UploadRunning =>
        \A i \in DOMAIN uploads.futures :
            (i \notin Uploading /\ uploads'.futures[i] = "uploading") =>
                /\ Cardinality(Uploading) < uploads.concurrency
                /\ uploads.futures[i] = "waiting"

\* C21: at most concurrency tasks are executing their upload at any moment, every other
\* unfinished task is not yet started, and a task starts its upload only while fewer than
\* concurrency are running
C21_AtMostConcurrency ==
    /\ [](UploadRunning =>
              /\ Cardinality(Uploading) <= uploads.concurrency
              /\ \A i \in Unfinished \ Uploading :
                     uploads.futures[i] \in {"created", "waiting"}
                         /\ uploads.outcomes[i] = "none")
    /\ [][C21_Step]_vars

\* concurrency uploads are under way, one task is finished and another is still to start
C21_Witness ==
    /\ UploadRunning
    /\ Cardinality(Uploading) = uploads.concurrency
    /\ \E i, j \in DOMAIN uploads.futures :
        uploads.futures[i] = "done" /\ uploads.futures[j] = "created"

C22_Step ==
    UploadRunning =>
        \A i \in Uploading :
            (uploads'.futures[i] = "done") =>
                /\ uploads'.outcomes[i] = "timeout" <=> uploads.elapsed[i] = TimeoutSecs
                /\ uploads'.outcomes[i] = "timeout" =>
                    /\ uploads'.results = Append(uploads.results,
                           [store_path |-> uploads.tasks[i], success |-> FALSE,
                            error |-> "Upload timeout", duration_secs |-> TimeoutSecs])
                    /\ uploads'.permits = uploads.permits + 1
                    /\ \A j \in DOMAIN uploads.futures \ {i} :
                           uploads'.futures[j] = uploads.futures[j]

TimedOut == {i \in DOMAIN uploads.outcomes : uploads.outcomes[i] = "timeout"}

\* C22: a task whose upload is not over timeout_secs after its admission ends then, with
\* one result that is a failure with the timeout reason; its permit is freed, the others
\* go on and are reported; the time before admission does not count
C22_TimeoutYieldsResult ==
    /\ [](UploadRunning => \A i \in Uploading : uploads.elapsed[i] <= TimeoutSecs)
    /\ [][C22_Step]_vars
    /\ [](UploadReturned =>
              /\ Len(uploads.results) = Len(uploads.tasks)
              /\ Cardinality({k \in DOMAIN uploads.results :
                                 uploads.results[k].error = "Upload timeout"})
                     = Cardinality(TimedOut)
              /\ \A k \in DOMAIN uploads.results :
                     uploads.results[k].error = "Upload timeout" =>
                         ~uploads.results[k].success
                             /\ uploads.results[k].error # UploadResult("a", "err", 0).error)

\* the first task waited for admission and then timed out; the tasks after it were
\* admitted, one failed and one succeeded
C22_Witness ==
    /\ UploadReturned
    /\ Len(uploads.tasks) = 3
    /\ uploads.outcomes = <<"timeout", "err", "ok">>
    /\ uploads.waited[1] >= 1
    /\ uploads.results[1].error = "Upload timeout"
    /\ uploads.results[3].success

(***************************************************************************)
(* resolve.rs: extract_store_path_hash. A path is a sequence of one-letter *)
(* strings.                                                                *)
(***************************************************************************)
MAX_RETRIES == 3

RETRY_DELAY_SECS == 2

MaxPathLen == 4

PathLetters == {"/", "-", ".", "a"}

ShortPaths == UNION {[1..n -> PathLetters] : n \in 0..MaxPathLen}

\* "/nix/store/xyz789abc-my-package-name-1.0.0" (resolve.rs:211)
PackagePath ==
    <<
      "/", "n", "i", "x", "/", "s", "t", "o", "r", "e", "/", "x",
      "y", "z", "7", "8", "9", "a", "b", "c", "-", "m", "y", "-",
      "p", "a", "c", "k", "a", "g", "e", "-", "n", "a", "m", "e",
      "-", "1", ".", "0", ".", "0"
    >>

\* "/nix/store/abc123xyz-hello-2.12.1" (resolve.rs:204)
HelloPath ==
    <<
      "/", "n", "i", "x", "/", "s", "t", "o", "r", "e", "/", "a",
      "b", "c", "1", "2", "3", "x", "y", "z", "-", "h", "e", "l",
      "l", "o", "-", "2", ".", "1", "2", ".", "1"
    >>

\* the part of s before the first c, and the part after it (<<>> when c is not in s)
RECURSIVE Before(_, _)
Before(s, c) ==
    IF s = <<>> \/ Head(s) = c THEN <<>> ELSE <<Head(s)>> \o Before(Tail(s), c)

After(s, c) == SubSeq(s, Len(Before(s, c)) + 2, Len(s))

\* str::split: the pieces of s between the occurrences of c
RECURSIVE split(_, _)
split(s, c) ==
    IF Len(Before(s, c)) = Len(s) THEN <<s>>
    ELSE <<Before(s, c)>> \o split(After(s, c), c)

\* Path::components: empty pieces and "." are dropped, except a leading "."
Components(pieces) ==
    SelectSeq([k \in DOMAIN pieces |-> [first |-> k = 1, piece |-> pieces[k]]],
              LAMBDA e : e.piece # <<>> /\ (e.piece = <<".">> => e.first))

None == [some |-> FALSE, value |-> <<>>]

Some(value) == [some |-> TRUE, value |-> value]

\* the last component when it is a normal one
last_normal(components) ==
    IF components = <<>> THEN None
    ELSE IF components[Len(components)].piece \in {<<".">>, <<".", ".">>} THEN None
    ELSE Some(components[Len(components)].piece)

\* Path::file_name (resolve.rs:182-185)
file_name(store_path) == last_normal(Components(split(store_path, "/")))

last_piece(filename) == split(filename, "-")[Len(split(filename, "-"))]

\* resolve.rs:189-192: filename.split('-').next()
first_piece(filename) == split(filename, "-")[1]

hash_of(filename) ==
    IF filename.some THEN [ok |-> TRUE, value |-> first_piece(filename.value)]
    ELSE [ok |-> FALSE, value |-> <<"Invalid store path">>]

\* resolve.rs:180-195
extract_store_path_hash(store_path) == hash_of(file_name(store_path))

(***************************************************************************)
(* resolve and resolve_single (resolve.rs:20-145)                          *)
(***************************************************************************)
MaxPaths == 2

\* the store paths resolve is called with: a path that has a hash, the empty path, one
\* that ends in "..", and the paths of the repository's tests
SamplePaths == {<<"/", "a", "-", "a">>, <<>>, <<"/", "a", "/", ".", ".">>, PackagePath}

PathLists ==
    UNION {[1..n -> SamplePaths] : n \in 0..MaxPaths}
        \cup {<<store_path>> : store_path \in ShortPaths \cup {HelloPath}}

\* what download_nar does within DOWNLOAD_TIMEOUT_SECS: Ok, Err, or nothing
DownloadOutcomes == {"ok", "err", "timeout"}

NoLog == [hash |-> <<>>, events |-> <<>>, result |-> "none", error |-> <<>>]

backoff_fixed(attempt) == RETRY_DELAY_SECS

\* resolve.rs:122 and 133: RETRY_DELAY_SECS * attempt
backoff(attempt) == RETRY_DELAY_SECS * attempt

stop_at_failure(r, idx) == IF r.result = "Err" THEN Len(r.store_paths) + 1 ELSE idx + 1

\* resolve.rs:36: the loop goes on to the next store path
next_idx(r, idx) == idx + 1

\* resolve.rs:39-59: resolve_single has returned for the store path at idx
Finished(r, idx, result, error) ==
    [r EXCEPT !.log[idx].result = result,
              !.log[idx].error = error,
              !.successful = IF result = "Ok" THEN @ + 1 ELSE @,
              !.failed = IF result = "Ok" THEN @ ELSE Append(@, <<r.store_paths[idx], error>>),
              !.idx = next_idx([r EXCEPT !.result = result], idx),
              !.pc = "start",
              !.attempt = 0,
              !.delay = 0]

\* resolve.rs:108-110: the hash, or the error of extract_store_path_hash at once
Started(r, idx, h) ==
    IF h.ok THEN [r EXCEPT !.log[idx].hash = h.value, !.pc = "attempt", !.attempt = 1]
    ELSE Finished(r, idx, "Err", h.value)

\* resolve.rs:117-138: one attempt has ended with outcome o
Attempted(r, idx, o) ==
    IF o = "ok" THEN Finished(r, idx, "Ok", <<>>)
    ELSE IF r.attempt < MAX_RETRIES
    THEN [r EXCEPT !.pc = "sleep", !.delay = backoff(r.attempt)]
    ELSE Finished(r, idx, "Err", <<o, r.attempt>>)

InitResolve ==
    /\ HashIdle /\ CacheIdle /\ ConcIdle /\ XferIdle
    /\ \E store_paths \in PathLists :
        resolver = [phase |-> "called", store_paths |-> store_paths, idx |-> 1,
                    pc |-> "start", attempt |-> 0, delay |-> 0,
                    log |-> [i \in DOMAIN store_paths |-> NoLog],
                    successful |-> 0, failed |-> <<>>, result |-> "none"]

\* resolve.rs:20-34
ResolveCall ==
    /\ resolver # <<>> /\ resolver.phase = "called"
    /\ resolver' = IF resolver.store_paths = <<>>
                   THEN [resolver EXCEPT !.phase = "returned", !.result = "Ok"]
                   ELSE [resolver EXCEPT !.phase = "running"]
    /\ UNCHANGED <<hashVars, cacheVars, concVars, xferVars>>

ResolveRunning ==
    resolver # <<>> /\ resolver.phase = "running" /\ resolver.idx <= Len(resolver.store_paths)

\* resolve.rs:39 and 106-110
ResolveSingle ==
    /\ ResolveRunning /\ resolver.pc = "start"
    /\ resolver' = Started(resolver, resolver.idx,
                           extract_store_path_hash(resolver.store_paths[resolver.idx]))
    /\ UNCHANGED <<hashVars, cacheVars, concVars, xferVars>>

\* resolve.rs:111-139
Attempt ==
    /\ ResolveRunning /\ resolver.pc = "attempt"
    /\ \E o \in DownloadOutcomes :
        resolver' = Attempted([resolver EXCEPT !.log[resolver.idx].events =
                                                   Append(@, <<"attempt", o>>)],
                              resolver.idx, o)
    /\ UNCHANGED <<hashVars, cacheVars, concVars, xferVars>>

\* resolve.rs:122-123 and 133-134: the sleep ends and the loop takes the next attempt
Backoff ==
    /\ ResolveRunning /\ resolver.pc = "sleep"
    /\ resolver' = [resolver EXCEPT !.log[resolver.idx].events =
                                        Append(@, <<"sleep", resolver.delay>>),
                                    !.pc = "attempt", !.attempt = @ + 1, !.delay = 0]
    /\ UNCHANGED <<hashVars, cacheVars, concVars, xferVars>>

\* resolve.rs:62-94
ResolveReturn ==
    /\ resolver # <<>> /\ resolver.phase = "running"
    /\ resolver.idx > Len(resolver.store_paths)
    /\ resolver' = [resolver EXCEPT !.phase = "returned",
                                    !.result = IF resolver.failed # <<>> THEN "Err" ELSE "Ok"]
    /\ UNCHANGED <<hashVars, cacheVars, concVars, xferVars>>

NextResolve == ResolveCall \/ ResolveSingle \/ Attempt \/ Backoff \/ ResolveReturn

SpecResolve == InitResolve /\ [][NextResolve]_vars

AttemptsIn(events) == {k \in DOMAIN events : events[k][1] = "attempt"}

C23_Path(l) ==
    /\ Cardinality(AttemptsIn(l.events)) <= 3
    /\ \A k \in DOMAIN l.events :
        /\ k % 2 = 1 => l.events[k][1] = "attempt"
        /\ k % 2 = 0 => l.events[k] = <<"sleep", 2 * (k \div 2)>>
        /\ k < Len(l.events) /\ k % 2 = 1 => l.events[k][2] # "ok"
    /\ l.result = "Ok" =>
        /\ l.events # <<>>
        /\ l.events[Len(l.events)] = <<"attempt", "ok">>
    /\ (l.events # <<>> /\ l.events[Len(l.events)] = <<"attempt", "ok">>) => l.result = "Ok"
    /\ (l.result = "Err" /\ l.events # <<>>) =>
        /\ Cardinality(AttemptsIn(l.events)) = 3
        /\ l.events[Len(l.events)][1] = "attempt"
        /\ l.events[Len(l.events)][2] # "ok"

\* C23: resolve_single makes at most 3 attempts, returns Ok at the first one that succeeds,
\* waits 2 s after the first and 4 s after the second failed or timed-out attempt, and
\* returns the error right after the third, without a wait
C23_ThreeAttempts ==
    resolver # <<>> => \A i \in DOMAIN resolver.log : C23_Path(resolver.log[i])

\* a store path downloaded at the third attempt, after a failure and a timeout
C23_Witness ==
    /\ resolver # <<>> /\ resolver.phase = "returned"
    /\ \E i \in DOMAIN resolver.log :
        /\ resolver.log[i].result = "Ok"
        /\ resolver.log[i].events = <<<<"attempt", "err">>, <<"sleep", 2>>,
                                      <<"attempt", "timeout">>, <<"sleep", 4>>,
                                      <<"attempt", "ok">>>>

\* a store path given up after the third attempt
C23_WitnessErr ==
    /\ resolver # <<>> /\ resolver.phase = "returned"
    /\ \E i \in DOMAIN resolver.log :
        /\ resolver.log[i].result = "Err"
        /\ Len(resolver.log[i].events) = 5

ResolveReturned == resolver # <<>> /\ resolver.phase = "returned"

FailedPaths == {i \in DOMAIN resolver.log : resolver.log[i].result = "Err"}

\* C24: resolve handles every store path of the list, whatever happened to the ones
\* before; it returns Err exactly when a path failed, Ok otherwise and for the empty list;
\* succeeded + failed is the number of paths
C24_AllPathsAttempted ==
    ResolveReturned =>
        /\ \A i \in DOMAIN resolver.log :
            /\ resolver.log[i].result \in {"Ok", "Err"}
            /\ extract_store_path_hash(resolver.store_paths[i]).ok =>
                   resolver.log[i].events # <<>>
        /\ resolver.result = "Err" <=> FailedPaths # {}
        /\ resolver.result = "Ok" <=> FailedPaths = {}
        /\ resolver.store_paths = <<>> => resolver.result = "Ok"
        /\ Len(resolver.failed) = Cardinality(FailedPaths)
        /\ resolver.successful + Len(resolver.failed) = Len(resolver.store_paths)

\* the first store path failed after three attempts and the second was downloaded
C24_Witness ==
    /\ ResolveReturned
    /\ Len(resolver.store_paths) = 2
    /\ resolver.log[1].result = "Err" /\ Len(resolver.log[1].events) = 5
    /\ resolver.log[2].result = "Ok"
    /\ resolver.result = "Err"
    /\ resolver.successful = 1

\* what may follow the final component: separators and "." components
IsTrailer(t) ==
    /\ t # <<>> => t[1] = "/"
    /\ \A k \in DOMAIN t : t[k] \in {"/", "."}
    /\ \A k \in 1..(Len(t) - 1) : ~(t[k] = "." /\ t[k + 1] = ".")

\* path[a..b] is a final component of path
IsFinal(path, a, b) ==
    /\ a <= b
    /\ a = 1 \/ path[a - 1] = "/"
    /\ \A k \in a..b : path[k] # "/"
    /\ SubSeq(path, a, b) \notin {<<".">>, <<".", ".">>}
    /\ IsTrailer(SubSeq(path, b + 1, Len(path)))

\* the final components of a path: at most one piece qualifies
FinalComponents(path) ==
    {SubSeq(path, ab[1], ab[2]) :
        ab \in {x \in (1..Len(path)) \X (1..Len(path)) : IsFinal(path, x[1], x[2])}}

\* h is the part of f before its first "-"
PrecedesFirstHyphen(h, f) ==
    /\ \A k \in DOMAIN h : h[k] # "-"
    /\ (f = h \/ (Len(f) > Len(h) /\ SubSeq(f, 1, Len(h) + 1) = h \o <<"-">>))

\* resolve_single has dealt with the hash of the store path at i
HashTaken(i) ==
    /\ resolver # <<>> /\ resolver.phase # "called"
    /\ (resolver.idx > i \/ (resolver.idx = i /\ resolver.pc # "start"))

\* C30: extract_store_path_hash gives the part of the final component before its first
\* "-" and fails for a path without a final component; on that failure resolve_single
\* returns the error at once, with no attempt and no wait
C30_HashOrImmediateError ==
    resolver # <<>> =>
        \A i \in DOMAIN resolver.log :
            HashTaken(i) =>
                /\ \A f \in FinalComponents(resolver.store_paths[i]) :
                    /\ PrecedesFirstHyphen(resolver.log[i].hash, f)
                    /\ resolver.log[i].error # <<"Invalid store path">>
                /\ FinalComponents(resolver.store_paths[i]) = {} =>
                    /\ resolver.log[i].result = "Err"
                    /\ resolver.log[i].error = <<"Invalid store path">>
                    /\ resolver.log[i].events = <<>>
                /\ resolver.store_paths[i] = PackagePath =>
                    resolver.log[i].hash = <<"x", "y", "z", "7", "8", "9", "a", "b", "c">>
                /\ resolver.store_paths[i] = <<>> => resolver.log[i].result = "Err"

\* the package path gave its hash and the empty path failed without an attempt
C30_Witness ==
    /\ ResolveReturned
    /\ resolver.store_paths = <<PackagePath, <<>>>>
    /\ resolver.log[1].hash = <<"x", "y", "z", "7", "8", "9", "a", "b", "c">>
    /\ resolver.log[2].result = "Err"
    /\ resolver.log[2].events = <<>>

\* a path that ends in "/." after a component with two hyphens
C30_WitnessTrailing ==
    /\ ResolveReturned
    /\ resolver.store_paths = <<<<"-", "-", "/", ".">>>>
    /\ resolver.log[1].hash = <<>>
    /\ resolver.log[1].events # <<>>

\* the ordered pairs (dependent, dependency) of discovered paths
ReferencePairs == {pd \in out.nodes \X out.nodes : References(pd[1], pd[2])}

C28_DistinctReferences ==
    (out.op = "prewarm" /\ out.built
        /\ \A path \in StorePaths :
               Len(store.refs[path]) = Cardinality(SeqToSet(store.refs[path]))) =>
        /\ out.nedges = Cardinality(ReferencePairs)
        /\ \A path \in DOMAIN out.edges :
            Len(out.edges[path]) = Cardinality(SeqToSet(out.edges[path]))

C25_Step ==
    (session # <<>> /\ session.phase \in {"running", "returned"}) =>
        \A i \in DOMAIN chunks :
            chunks'[i] # chunks[i] =>
                /\ \/ chunks[i].tag = "Pending" /\ chunks'[i].tag = "Downloading"
                   \/ chunks[i].tag = "Downloading" /\ chunks'[i].tag \in {"Completed", "Failed"}
                /\ workers'[i] # workers[i]
                /\ \A j \in DOMAIN workers \ {i} : workers'[j] = workers[j]

\* C25: a chunk's status goes from Pending to Downloading and from there to Completed or
\* Failed and changes in no other way, and it changes only in a step of the chunk's own task
C25_StatusOneWay == [][C25_Step]_vars

\* one chunk is Completed, one Failed and one Downloading
C25_Witness ==
    /\ session # <<>> /\ session.phase = "running"
    /\ ChunksWith("Completed") # {} /\ ChunksWith("Failed") # {}
    /\ ChunksWith("Downloading") # {}

C26_Step ==
    (session # <<>> /\ session.phase = "throttle") =>
        /\ BaselineSet => throttle'.baseline_latency = throttle.baseline_latency
        /\ (~BaselineSet /\ throttle'.baseline_latency # NoBaseline) =>
            /\ session'.op = "adjust"
            /\ Len(throttle.latencies) >= MinSamples
            /\ 2 * throttle'.baseline_latency[1] = Mean2

\* C26: the baseline is set by the first adjust call that finds enough samples, to the mean
\* of the recent samples, and no later adjust call or sample changes it
C26_BaselineFixed == [][C26_Step]_vars

\* an adjust call has run on a recent mean that differs from the baseline
C26_Witness ==
    /\ session # <<>> /\ session.phase = "throttle" /\ session.op = "adjust"
    /\ BaselineSet /\ Mean2 # Baseline2
    /\ Len(throttle.latencies) = KeepSamples

C27_Step ==
    (session # <<>> /\ session.phase = "throttle" /\ session'.op = "adjust"
        /\ Len(throttle.latencies) < MinSamples) =>
        /\ throttle' = throttle
        /\ throttle'.baseline_latency = NoBaseline

\* C27: an adjust call that finds fewer samples than it needs changes nothing: the limit
\* is as before and the baseline stays unset
C27_TooFewSamples == [][C27_Step]_vars

\* an adjust call has run with one sample short
C27_Witness ==
    /\ session # <<>> /\ session.phase = "throttle" /\ session.op = "adjust"
    /\ Len(throttle.latencies) = MinSamples - 1
    /\ throttle.baseline_latency = NoBaseline
    /\ throttle.max_concurrent = session.prev

(***************************************************************************)
(* The locks of the chunked downloader (chunked_download.rs:37, 49, 52):   *)
(* the status map, the latency buffer and the baseline are tokio mutexes.  *)
(* The task of a chunk and the adjustment task are followed from one await *)
(* to the next, with the guards each of them holds                         *)
(***************************************************************************)
Free == <<>>

ChunkTask(i) == <<"chunk", i>>

AdjustTask == <<"adjust">>

NoAnswer == [kind |-> "none", latency |-> 0]

\* Mutex::lock().await resolved: the guard belongs to the task
lock(locks, name, task) == [locks EXCEPT ![name] = task]

unlock_never(locks, name) == locks

\* the guard is dropped: end of its block, drop(guard) or return
unlock(locks, name) == [locks EXCEPT ![name] = Free]

\* the guards of a task are dropped with its future (JoinHandle::abort)
unlock_all(locks, task) == [l \in DOMAIN locks |-> IF locks[l] = task THEN Free ELSE locks[l]]

\* the lock a task waits for at each lock().await, and the place it is at with the guard
LockAt(pc) ==
    IF pc \in {"want_mark", "want_store"} THEN "chunks"
    ELSE IF pc \in {"want_sample", "want_latencies"} THEN "latencies"
    ELSE "baseline"

Locked(pc) ==
    IF pc = "want_mark" THEN "marking"
    ELSE IF pc = "want_store" THEN "storing"
    ELSE IF pc = "want_sample" THEN "sampling"
    ELSE IF pc = "want_latencies" THEN "averaging"
    ELSE "adjusting"

MaxLockSize == 5

\* no chunk, 2 chunks and 3 chunks
LockSizes == {0, 3, MaxLockSize}

InitLocksOf(sizes) ==
    /\ OtherIdle
    /\ uploads = <<>>
    /\ workers = <<>>
    /\ \E t \in sizes, c \in InitialLimits :
        /\ session = new(t, c, "wrap").session
                        @@ [locks |-> [chunks |-> Free, latencies |-> Free, baseline |-> Free],
                            adjust_pc |-> "sleep", avg_latency |-> 0]
        /\ chunks = new(t, c, "wrap").chunks
        /\ throttle = new(t, c, "wrap").throttle

InitLocks == InitLocksOf(LockSizes)

\* chunked_download.rs:146-175: the adjustment task and one task per chunk are spawned
SpawnTasks ==
    /\ session.phase = "new"
    /\ ~session.panicked
    /\ session' = [session EXCEPT !.phase = "tasks", !.adjust_task = "running"]
    /\ workers' = [i \in 0..(session.num_chunks - 1) |->
                      [pc |-> "start", current_max |-> 0, o |-> NoAnswer]]
    /\ UNCHANGED <<chunks, throttle, uploads, hashVars, cacheVars, concVars, toolVars>>

\* chunked_download.rs:177
TaskLoad(i) ==
    /\ workers[i].pc = "start"
    /\ workers' = [workers EXCEPT ![i].pc = "loaded",
                                  ![i].current_max = throttle.max_concurrent]
    /\ UNCHANGED <<session, chunks, throttle, uploads, hashVars, cacheVars, concVars, toolVars>>

\* chunked_download.rs:181-196: the permit, and the second look at the limit
TaskAcquire(i) ==
    /\ workers[i].pc = "loaded"
    /\ session.permits > 0
    /\ IF throttle.max_concurrent < workers[i].current_max
       THEN /\ workers' = [workers EXCEPT ![i].pc = "returned"]
            /\ UNCHANGED session
       ELSE /\ workers' = [workers EXCEPT ![i].pc = "want_mark"]
            /\ session' = [session EXCEPT !.permits = @ - 1]
    /\ UNCHANGED <<chunks, throttle, uploads, hashVars, cacheVars, concVars, toolVars>>

\* chunked_download.rs:200, 220, 244, 258, 263, 268: chunks.lock().await and
\* latencies.lock().await resolve when the mutex is free
TaskLock(i) ==
    /\ workers[i].pc \in {"want_mark", "want_sample", "want_store"}
    /\ session.locks[LockAt(workers[i].pc)] = Free
    /\ session' = [session EXCEPT !.locks = lock(@, LockAt(workers[i].pc), ChunkTask(i))]
    /\ workers' = [workers EXCEPT ![i].pc = Locked(@)]
    /\ UNCHANGED <<chunks, throttle, uploads, hashVars, cacheVars, concVars, toolVars>>

\* chunked_download.rs:199-213: Downloading is inserted, the block ends and the request
\* is sent
TaskMark(i) ==
    /\ workers[i].pc = "marking"
    /\ chunks' = [chunks EXCEPT ![i] = Downloading]
    /\ session' = [session EXCEPT !.locks = unlock(@, "chunks")]
    /\ workers' = [workers EXCEPT ![i].pc = "sending"]
    /\ UNCHANGED <<throttle, uploads, hashVars, cacheVars, concVars, toolVars>>

\* chunked_download.rs:208-214, 267: send().await resolves with a response or an error
TaskAnswer(i) ==
    /\ workers[i].pc = "sending"
    /\ \E o \in Outcomes :
        workers' = [workers EXCEPT ![i].o = o,
                                   ![i].pc = IF o.kind = "send" THEN "want_store"
                                             ELSE "want_sample"]
    /\ UNCHANGED <<session, chunks, throttle, uploads, hashVars, cacheVars, concVars, toolVars>>

\* chunked_download.rs:219-237, 262: the sample is pushed and the block ends; a good
\* status goes on to read the body
TaskSample(i) ==
    /\ workers[i].pc = "sampling"
    /\ throttle' = push_latency(throttle, workers[i].o.latency)
    /\ session' = [session EXCEPT !.locks = unlock(@, "latencies")]
    /\ workers' = [workers EXCEPT ![i].pc = IF workers[i].o.kind = "http" THEN "want_store"
                                            ELSE "reading"]
    /\ UNCHANGED <<chunks, uploads, hashVars, cacheVars, concVars, toolVars>>

\* chunked_download.rs:237-238, 257: response.bytes().await resolves
TaskBody(i) ==
    /\ workers[i].pc = "reading"
    /\ workers' = [workers EXCEPT ![i].pc = "want_store"]
    /\ UNCHANGED <<session, chunks, throttle, uploads, hashVars, cacheVars, concVars, toolVars>>

\* chunked_download.rs:243-249, 258-260, 263-264, 268-269: the final status is inserted,
\* the guard is dropped and the task ends, which gives the permit back
TaskStore(i) ==
    /\ workers[i].pc = "storing"
    /\ chunks' = [chunks EXCEPT ![i] = status_after(session, i, workers[i].o)]
    /\ session' = [session EXCEPT !.locks = unlock(@, "chunks"),
                                  !.permits = drop_permit(@)]
    /\ workers' = [workers EXCEPT ![i].pc = "returned"]
    /\ UNCHANGED <<throttle, uploads, hashVars, cacheVars, concVars, toolVars>>

\* chunked_download.rs:152-154, 368: the sleep is over and adjust_concurrency is called
AdjustWake ==
    /\ session.phase = "tasks"
    /\ session.adjust_task = "running"
    /\ session.adjust_pc = "sleep"
    /\ session.ticks < MaxTicks
    /\ session' = [session EXCEPT !.adjust_pc = "want_latencies", !.ticks = @ + 1]
    /\ UNCHANGED <<chunks, workers, throttle, uploads, hashVars, cacheVars, concVars, toolVars>>

\* chunked_download.rs:368, 388: latencies.lock().await and baseline_latency.lock().await
AdjustLock ==
    /\ session.phase = "tasks"
    /\ session.adjust_task = "running"
    /\ session.adjust_pc \in {"want_latencies", "want_baseline"}
    /\ session.locks[LockAt(session.adjust_pc)] = Free
    /\ session' = [session EXCEPT !.locks = lock(@, LockAt(session.adjust_pc), AdjustTask),
                                  !.adjust_pc = Locked(@)]
    /\ UNCHANGED <<chunks, workers, throttle, uploads, hashVars, cacheVars, concVars, toolVars>>

\* chunked_download.rs:370-385: too few samples return, else the recent mean is taken and
\* the guard is dropped
AdjustAverage ==
    /\ session.phase = "tasks"
    /\ session.adjust_task = "running"
    /\ session.adjust_pc = "averaging"
    /\ IF Len(throttle.latencies) < MinSamples
       THEN session' = [session EXCEPT !.locks = unlock(@, "latencies"),
                                       !.adjust_pc = "sleep"]
       ELSE session' = [session EXCEPT !.locks = unlock(@, "latencies"),
                                       !.adjust_pc = "want_baseline",
                                       !.avg_latency = Avg(Recent(throttle.latencies))]
    /\ UNCHANGED <<chunks, workers, throttle, uploads, hashVars, cacheVars, concVars, toolVars>>

\* chunked_download.rs:388-413: the limit is adjusted under the baseline's guard
AdjustApply ==
    /\ session.phase = "tasks"
    /\ session.adjust_task = "running"
    /\ session.adjust_pc = "adjusting"
    /\ throttle' = adjust_avg(throttle, session.avg_latency)
    /\ session' = [session EXCEPT !.locks = unlock(@, "baseline"), !.adjust_pc = "sleep"]
    /\ UNCHANGED <<chunks, workers, uploads, hashVars, cacheVars, concVars, toolVars>>

\* chunked_download.rs:293-303: join_all, abort (the adjustment task's future is dropped
\* with its guard), reassemble_chunks, return
JoinTasks ==
    /\ session.phase = "tasks"
    /\ \A i \in DOMAIN workers : workers[i].pc = "returned"
    /\ session' = [session EXCEPT !.phase = "joined",
                                  !.adjust_task = abort(@),
                                  !.locks = unlock_all(@, AdjustTask),
                                  !.result = [status |-> reassemble_chunks(session, chunks).status,
                                              msg |-> reassemble_chunks(session, chunks).msg]]
    /\ UNCHANGED <<chunks, workers, throttle, uploads, hashVars, cacheVars, concVars, toolVars>>

NextLocks ==
    \/ SpawnTasks
    \/ \E i \in DOMAIN workers :
        \/ TaskLoad(i) \/ TaskAcquire(i) \/ TaskLock(i) \/ TaskMark(i)
        \/ TaskAnswer(i) \/ TaskSample(i) \/ TaskBody(i) \/ TaskStore(i)
    \/ AdjustWake \/ AdjustLock \/ AdjustAverage \/ AdjustApply
    \/ JoinTasks

SpecLocks == InitLocks /\ [][NextLocks]_vars

LockChunkIds == 0..(num_chunks_of(MaxLockSize + CHUNK_SIZE - 1) - 1)

\* the runtime polls every task that can go on; a request is answered (TaskAnswer,
\* TaskBody); tokio's Semaphore and Mutex serve their waiters in order, so a task that
\* can get the permit or the lock again and again gets it
FairTask(i) ==
    /\ WF_vars(i \in DOMAIN workers /\ TaskLoad(i))
    /\ SF_vars(i \in DOMAIN workers /\ TaskAcquire(i))
    /\ SF_vars(i \in DOMAIN workers /\ TaskLock(i))
    /\ WF_vars(i \in DOMAIN workers /\ TaskMark(i))
    /\ WF_vars(i \in DOMAIN workers /\ TaskAnswer(i))
    /\ WF_vars(i \in DOMAIN workers /\ TaskSample(i))
    /\ WF_vars(i \in DOMAIN workers /\ TaskBody(i))
    /\ WF_vars(i \in DOMAIN workers /\ TaskStore(i))

FairLocks ==
    /\ WF_vars(SpawnTasks)
    /\ \A i \in LockChunkIds : FairTask(i)
    /\ WF_vars(AdjustAverage)
    /\ WF_vars(AdjustApply)
    /\ WF_vars(JoinTasks)

\* no chunk and 2 chunks
FairSizes == {0, 3}

InitLocksFair == InitLocksOf(FairSizes)

SpecLocksFair == InitLocksFair /\ [][NextLocks]_vars /\ FairLocks

LockPhase == session # <<>> /\ session.phase \in {"tasks", "joined"}

LockTasks == {ChunkTask(i) : i \in DOMAIN workers} \cup {AdjustTask}

Held(task) == {l \in DOMAIN session.locks : session.locks[l] = task}

\* the task waits at a lock().await
WaitsFor(task) ==
    IF task = AdjustTask
    THEN IF session.adjust_task = "running"
            /\ session.adjust_pc \in {"want_latencies", "want_baseline"}
         THEN {LockAt(session.adjust_pc)} ELSE {}
    ELSE IF workers[task[2]].pc \in {"want_mark", "want_sample", "want_store"}
         THEN {LockAt(workers[task[2]].pc)} ELSE {}

\* the task waits at send().await or bytes().await
OnNetwork(task) == task # AdjustTask /\ workers[task[2]].pc \in {"sending", "reading"}

\* C29: no task holds a guard of the status map, the latency buffer or the baseline while
\* its request or its body is awaited, no task holds two guards or waits for a lock with a
\* guard in its hand, and so every lock a task waits for is free or held by a task that
\* does not wait: the tasks cannot deadlock on these locks
C29_NoLockAcrossAwait ==
    LockPhase =>
        /\ \A task \in LockTasks :
            /\ OnNetwork(task) => Held(task) = {}
            /\ Cardinality(Held(task)) <= 1
            /\ WaitsFor(task) # {} => Held(task) = {}
        /\ \A task \in LockTasks : \A l \in WaitsFor(task) :
            session.locks[l] # Free =>
                /\ session.locks[l] \in LockTasks
                /\ WaitsFor(session.locks[l]) = {}
                /\ ~OnNetwork(session.locks[l])
        /\ (\E task \in LockTasks : WaitsFor(task) # {}) => ENABLED NextLocks

\* one chunk task waits for the latency buffer that the adjustment task holds while another
\* chunk task has its request on the network
C29_Witness ==
    /\ LockPhase
    /\ session.locks.latencies = AdjustTask
    /\ \E i, j \in DOMAIN workers :
        /\ workers[i].pc = "want_sample"
        /\ workers[j].pc = "sending"

\* a chunk task holds the status map while the adjustment task holds the baseline
C29_WitnessTwoLocks ==
    /\ LockPhase
    /\ session.locks.baseline = AdjustTask
    /\ \E i \in DOMAIN workers : session.locks.chunks = ChunkTask(i)

C32_DownloadReturns == <>(session # <<>> /\ session.phase = "joined")

\* a task waits for a permit while another waits for the latency buffer that the
\* adjustment task holds
C32_Witness ==
    /\ LockPhase /\ session.phase = "tasks"
    /\ session.permits = 0
    /\ session.locks.latencies = AdjustTask
    /\ \E i, j \in DOMAIN workers :
        /\ workers[i].pc = "loaded"
        /\ workers[j].pc = "want_sample"

\* download has returned Err after the adjustment task ran twice
C32_WitnessReturned ==
    /\ LockPhase /\ session.phase = "joined"
    /\ session.result.status = "Err"
    /\ session.ticks = MaxTicks
    /\ ChunksWith("Completed") # {} /\ ChunksWith("Failed") # {}

(***************************************************************************)
(* download with a server that answers a range request with a body of any  *)
(* length (chunked_download.rs:235-245): the body is stored and counted as *)
(* it came                                                                 *)
(***************************************************************************)
\* what the server sends for a range request: the range (206), the whole object (200, the
\* Range header ignored), the range without its last byte, or an error status
BodyOutcomes ==
    {[kind |-> k, latency |-> 1] : k \in {"ok", "whole", "short", "http"}}

\* response.bytes() (chunked_download.rs:237)
body_of(d, chunk_idx, o) ==
    IF o.kind = "whole" THEN SourceObject(d.total_size)
    ELSE IF o.kind = "short"
    THEN SubSeq(RangeOf(d, chunk_idx), 1, Len(RangeOf(d, chunk_idx)) - 1)
    ELSE RangeOf(d, chunk_idx)

\* chunked_download.rs:235-245, 262-264: a good status stores the body and adds its
\* length to bytes_downloaded
Stored(i, o) ==
    /\ throttle' = samples_after(throttle, o)
    /\ chunks' = [chunks EXCEPT ![i] = IF o.kind = "http" THEN status_after(session, i, o)
                                       ELSE Completed(body_of(session, i, o))]
    /\ workers' = [workers EXCEPT ![i].pc = "returned"]
    /\ session' = [session EXCEPT
                      !.permits = drop_permit(@),
                      !.bytes_downloaded = IF o.kind = "http" THEN @
                                           ELSE @ + Len(body_of(session, i, o))]

RespondBody(i) ==
    /\ workers[i].pc = "inflight"
    /\ \E o \in BodyOutcomes : Stored(i, o)
    /\ UNCHANGED <<uploads, hashVars, cacheVars, concVars, toolVars>>

\* 2 and 3 chunks, the last one shorter
BodySizes == {3, 5}

InitBodies ==
    /\ OtherIdle
    /\ uploads = <<>>
    /\ workers = <<>>
    /\ \E t \in BodySizes, c \in InitialLimits :
        /\ session = new(t, c, "wrap").session @@ [bytes_downloaded |-> 0]
        /\ chunks = new(t, c, "wrap").chunks
        /\ throttle = new(t, c, "wrap").throttle

NextBodies ==
    \/ StartDownload
    \/ \E i \in DOMAIN workers : LoadLimit(i) \/ Acquire(i) \/ RespondBody(i)
    \/ AdjustTick
    \/ Finish

SpecBodies == InitBodies /\ [][NextBodies]_vars

\* C34: when download has returned Ok the file is total_size bytes long and
\* bytes_downloaded is total_size
C34_OkIsComplete ==
    (session # <<>> /\ session.phase = "returned" /\ session.result.status = "Ok") =>
        /\ Len(session.file.data) = session.total_size
        /\ session.bytes_downloaded = session.total_size

\* with bodies that are the ranges asked for, Ok gives the object and the full count
C34_RangesHonoured ==
    (session # <<>> /\ session.phase = "returned" /\ session.result.status = "Ok"
        /\ \A i \in DOMAIN chunks : chunks[i] = Completed(RangeOf(session, i))) =>
        /\ session.file.data = SourceObject(session.total_size)
        /\ session.bytes_downloaded = session.total_size

\* the entries of the reference lists that name a discovered path
KnownEntries ==
    {e \in out.nodes \X (1..2) :
        e[2] \in DOMAIN store.refs[e[1]] /\ store.refs[e[1]][e[2]] \in out.nodes}

SelfReferring == {n \in out.nodes : n \in SeqToSet(store.refs[n])}

\* a cycle of references that goes through two or more paths
HasProperCycle ==
    \E n \in out.nodes :
        <<n, n>> \in Closure({pd \in out.nodes \X out.nodes :
                                pd[1] # pd[2] /\ References(pd[1], pd[2])})

\* C35: the graph has one edge for every reference that names a discovered path, a
\* path's reference to itself included, and none for a reference to another path; when
\* a path references itself the cycle warning is given and the order is the fallback one,
\* which still holds every discovered path
C35_SelfReferenceIsCycle ==
    (out.op = "prewarm" /\ out.built) =>
        /\ out.nedges = Cardinality(KnownEntries)
        /\ \A P \in out.nodes :
            SeqToSet(out.edges[P]) = {D \in SeqToSet(store.refs[P]) : D \in out.nodes}
        /\ SelfReferring # {} =>
            /\ out.warned
            /\ out.status = "Ok"
            /\ SeqToSet(out.order) = out.nodes

\* a path references itself and a path that was not discovered, no cycle goes through
\* two paths, and the warning was given
C35_Witness ==
    /\ out.op = "prewarm" /\ out.built /\ out.warned
    /\ ~HasProperCycle
    /\ \E n \in SelfReferring : \E D \in SeqToSet(store.refs[n]) : D \notin out.nodes
    /\ Cardinality(out.nodes) = 2

\* every requisites query of the run's roots fails
AllQueriesFail(roots) == \A i \in 1..Len(roots) : get_requisites(store, roots[i]) = <<>>

\* the file of the roots' fingerprint holds a record of that fingerprint with no order
EmptyOrderSaved(f, roots) ==
    /\ roots # <<>>
    /\ f[get_cache_file(hash_derivations(roots))].exists
    /\ CborDecode(f[get_cache_file(hash_derivations(roots))].data).ok
    /\ CborDecode(f[get_cache_file(hash_derivations(roots))].data).val.derivations_hash
           = hash_derivations(roots)
    /\ CborDecode(f[get_cache_file(hash_derivations(roots))].data).val.build_order = <<>>

\* a run that builds while every query fails
C36_FailedStep ==
    (out'.op = "prewarm" /\ out'.built /\ AllQueriesFail(out'.roots)) =>
        /\ out'.status = "Ok"
        /\ out'.order = <<>>
        /\ out'.saveStatus = "Ok"
        /\ EmptyOrderSaved(fs', out'.roots)

\* a run over roots whose file holds such a record
C36_HitStep ==
    (out'.op = "prewarm" /\ EmptyOrderSaved(fs, out'.roots)) =>
        /\ out'.status = "Ok"
        /\ out'.hit /\ ~out'.built /\ out'.queries = 0
        /\ out'.order = <<>>
        /\ fs' = fs

\* C36: a run whose requisites queries all fail returns Ok with an empty order and saves
\* a record with an empty build_order under the roots' fingerprint; every run over the
\* same roots that finds this record takes it as a hit, returns Ok with the empty order
\* (so it has no path to realise) and leaves the record as it is
C36_FailedQueryPersisted == [][C36_FailedStep /\ C36_HitStep]_vars

\* a hit on the empty record that a run with failed queries saved
C36_Witness ==
    /\ out.op = "prewarm" /\ out.hit /\ out.order = <<>>
    /\ AllQueriesFail(out.roots)
    /\ out.cached.created_at = MaxTime
    /\ EmptyOrderSaved(fs, out.roots)

\* a hit on an empty record although the queries now list paths
C36_WitnessRecovered ==
    /\ out.op = "prewarm" /\ out.hit /\ out.order = <<>>
    /\ ~AllQueriesFail(out.roots)

(***************************************************************************)
(* auto_prewarm from the ordered paths on (cache_warm.rs:151-221): one     *)
(* task per path, a semaphore, the validity check and the realise          *)
(***************************************************************************)
\* Semaphore::new(100) at cache_warm.rs:165, scaled
PrewarmPermits == 2

MaxOrder == 3

\* the orders handed to the downloads: up to MaxOrder entries over "p" and "q"
PrewarmOrders == UNION {[1..n -> {<<112>>, <<113>>}] : n \in 1..MaxOrder}

downloaded_if_ok(downloaded, realised) == IF realised = "ok" THEN downloaded + 1 ELSE downloaded

\* cache_warm.rs:198-202: the result of the realise is dropped and the path is counted
downloaded_after(downloaded, realised) == downloaded + 1

InitRealise ==
    /\ HashIdle
    /\ XferIdle
    /\ ToolIdle
    /\ ConcIdle
    /\ store = [reqs |-> <<>>, refs |-> <<>>]
    /\ fs = EmptyDir
    /\ \E order \in PrewarmOrders :
        out = [op |-> "downloads", order |-> order, phase |-> "ordered",
               permits |-> 0, tasks |-> <<>>, downloaded |-> 0, already_local |-> 0,
               status |-> "none"]

\* cache_warm.rs:151-206: the semaphore, the counters and one task per entry of the order
SpawnDownloads ==
    /\ out.op = "downloads" /\ out.phase = "ordered"
    /\ out' = [out EXCEPT !.phase = "spawned", !.permits = PrewarmPermits,
                          !.tasks = [i \in 1..Len(out.order) |->
                                        [pc |-> "spawned", valid |-> "none",
                                         realised |-> "none", realises |-> 0]]]
    /\ UNCHANGED <<store, fs, hashVars, xferVars, concVars, toolVars>>

\* cache_warm.rs:176-183
PermitAcquire(i) ==
    /\ out.phase = "spawned"
    /\ out.tasks[i].pc = "spawned"
    /\ out.permits > 0
    /\ out' = [out EXCEPT !.permits = @ - 1, !.tasks[i].pc = "checking"]
    /\ UNCHANGED <<store, fs, hashVars, xferVars, concVars, toolVars>>

\* cache_warm.rs:186-195: nix-store --query --validity; valid is "yes" when it ran and
\* succeeded, "no" when it ran and failed, "error" when it could not be run
CheckValidity(i) ==
    /\ out.phase = "spawned"
    /\ out.tasks[i].pc = "checking"
    /\ \E valid \in {"yes", "no", "error"} :
        out' = IF valid = "yes"
               THEN [out EXCEPT !.tasks[i].pc = "done", !.tasks[i].valid = valid,
                                !.already_local = @ + 1, !.permits = @ + 1]
               ELSE [out EXCEPT !.tasks[i].pc = "realising", !.tasks[i].valid = valid]
    /\ UNCHANGED <<store, fs, hashVars, xferVars, concVars, toolVars>>

\* cache_warm.rs:198-203: nix-store --realise, whatever it gives
Realise(i) ==
    /\ out.phase = "spawned"
    /\ out.tasks[i].pc = "realising"
    /\ \E realised \in {"ok", "failed", "error"} :
        out' = [out EXCEPT !.tasks[i].pc = "done", !.tasks[i].realised = realised,
                          !.tasks[i].realises = @ + 1,
                          !.downloaded = downloaded_after(@, realised),
                          !.permits = @ + 1]
    /\ UNCHANGED <<store, fs, hashVars, xferVars, concVars, toolVars>>

\* cache_warm.rs:209-220: join_all, the summary, Ok(())
JoinDownloads ==
    /\ out.op = "downloads" /\ out.phase = "spawned"
    /\ \A i \in DOMAIN out.tasks : out.tasks[i].pc = "done"
    /\ out' = [out EXCEPT !.phase = "returned", !.status = "Ok"]
    /\ UNCHANGED <<store, fs, hashVars, xferVars, concVars, toolVars>>

NextRealise ==
    \/ SpawnDownloads
    \/ \E i \in DOMAIN out.tasks : PermitAcquire(i)
    \/ \E i \in DOMAIN out.tasks : CheckValidity(i)
    \/ \E i \in DOMAIN out.tasks : Realise(i)
    \/ JoinDownloads

SpecRealise == InitRealise /\ [][NextRealise]_vars

TasksAt(pcs) == {i \in DOMAIN out.tasks : out.tasks[i].pc \in pcs}

\* the entries whose check succeeded, and those for which a realise was issued
FoundLocal == {i \in DOMAIN out.tasks : out.tasks[i].valid = "yes"}

RealiseIssued == {i \in DOMAIN out.tasks : out.tasks[i].realises > 0}

\* C40: never more tasks at work than the semaphore has permits; an entry whose validity
\* check succeeded is counted as already local and no realise is issued for it; every
\* other entry is counted as downloaded once its realise was issued, whatever the realise
\* gave; when auto_prewarm returns it returns Ok and already_local + downloaded is the
\* number of entries
C40_CountedOnce ==
    (out.op = "downloads" /\ out.phase \in {"spawned", "returned"}) =>
        /\ Cardinality(TasksAt({"checking", "realising"})) <= PrewarmPermits
        /\ out.already_local = Cardinality(FoundLocal)
        /\ out.downloaded = Cardinality(RealiseIssued)
        /\ FoundLocal \cap RealiseIssued = {}
        /\ \A i \in DOMAIN out.tasks : out.tasks[i].realises <= 1
        /\ \A i \in TasksAt({"done"}) : i \in FoundLocal \cup RealiseIssued
        /\ out.phase = "returned" =>
            /\ out.status = "Ok"
            /\ out.already_local + out.downloaded = Len(out.order)

\* auto_prewarm has returned: one entry was local, one realise failed, one succeeded
C40_Witness ==
    /\ out.op = "downloads" /\ out.phase = "returned"
    /\ out.already_local = 1 /\ out.downloaded = 2
    /\ \E i, j \in DOMAIN out.tasks :
        /\ out.tasks[i].realised = "failed"
        /\ out.tasks[j].realised = "ok"

\* every permit is taken and an entry waits for one
C40_WitnessWaiting ==
    /\ out.op = "downloads" /\ out.phase = "spawned"
    /\ out.permits = 0
    /\ TasksAt({"spawned"}) # {}

(***************************************************************************)
(* upload_parallel with the concurrency that adaptive_concurrency gives    *)
(* (parallel.rs:193-199, bandwidth.rs:127-177)                             *)
(***************************************************************************)
\* FLAKECACHE_CONCURRENCY: unset, or a string over these letters
Overrides ==
    {None, Some(<<"0">>), Some(<<"2">>), Some(<<"0", "2">>), Some(<<"x">>), Some(<<>>)}

\* str::parse::<usize>: the value of a non-empty string of digits
RECURSIVE digits_value(_, _)
digits_value(str, acc) ==
    IF str = <<>> THEN acc
    ELSE digits_value(Tail(str), 10 * acc + (IF Head(str) = "0" THEN 0 ELSE 2))

parse_usize(str) ==
    IF str # <<>> /\ \A k \in DOMAIN str : str[k] \in {"0", "2"}
    THEN Some(digits_value(str, 0))
    ELSE None

get_adaptive_concurrency_checked(override, recommended) ==
    IF override.some /\ parse_usize(override.value).some
    THEN Max(1, parse_usize(override.value).value)
    ELSE recommended

\* bandwidth.rs:127-177: the override when it parses, else the concurrency recommended
\* for the bandwidth
get_adaptive_concurrency(override, recommended) ==
    IF override.some /\ parse_usize(override.value).some
    THEN parse_usize(override.value).value
    ELSE recommended

\* parallel.rs:193-199
adaptive_concurrency(override, recommended) == get_adaptive_concurrency(override, recommended)

InitOverride ==
    /\ OtherIdle
    /\ session = <<>>
    /\ chunks = <<>>
    /\ workers = <<>>
    /\ throttle = <<>>
    /\ \E tasks \in TaskLists, override \in Overrides :
        uploads = [phase |-> "env", tasks |-> tasks, concurrency |-> 0,
                   override |-> override,
                   permits |-> 0, next |-> 1,
                   futures |-> [i \in DOMAIN tasks |-> "created"],
                   waited |-> [i \in DOMAIN tasks |-> 0],
                   elapsed |-> [i \in DOMAIN tasks |-> 0],
                   outcomes |-> [i \in DOMAIN tasks |-> "none"],
                   results |-> <<>>, returned |-> FALSE,
                   successful |-> 0, failed |-> 0]

\* the caller builds the configuration from adaptive_concurrency() and calls
\* upload_parallel; the recommended concurrency of the slowest tier is 1
Configure ==
    /\ uploads # <<>> /\ uploads.phase = "env"
    /\ uploads' = [uploads EXCEPT !.phase = "called",
                                  !.concurrency = adaptive_concurrency(uploads.override, 1)]
    /\ UNCHANGED <<hashVars, cacheVars, concVars, session, chunks, workers, throttle, toolVars>>

NextOverride == Configure \/ NextUpload

SpecOverride == InitOverride /\ [][NextOverride]_vars

ZeroConcurrency ==
    /\ uploads # <<>> /\ uploads.phase \notin {"env"}
    /\ uploads.concurrency = 0
    /\ uploads.tasks # <<>>

C37_Step ==
    (uploads.phase = "env" /\ uploads'.phase = "called"
        /\ uploads.override \in {Some(<<"0">>)}) => uploads'.concurrency = 0

\* C37: the override "0" gives concurrency 0, and with concurrency 0 and a task to upload
\* upload_parallel admits no task, yields no result and does not return
C37_ZeroNeverReturns ==
    /\ [](ZeroConcurrency =>
              /\ uploads.phase # "returned" /\ ~uploads.returned
              /\ uploads.results = <<>>
              /\ \A i \in DOMAIN uploads.futures : uploads.futures[i] = "created")
    /\ [][C37_Step]_vars

\* upload_parallel was called with the concurrency 0 of the override, and time has passed
C37_Witness ==
    /\ ZeroConcurrency
    /\ uploads.phase = "running"
    /\ uploads.override = Some(<<"0">>)
    /\ Len(uploads.tasks) = MaxTasks
    /\ \A i \in DOMAIN uploads.waited : uploads.waited[i] = MaxWait

(***************************************************************************)
(* CborClient::put_binary_chunked (cbor_client.rs:102-158)                 *)
(***************************************************************************)
\* 4 * 1024 * 1024 at cbor_client.rs:109, scaled
DEFAULT_CHUNK_SIZE == 4

MaxData == 6

MaxChunkSize == 3

\* data.chunks(chunk_size): the chunk with index chunk_idx
chunk_of(data, chunk_size, chunk_idx) ==
    SubSeq(data, chunk_idx * chunk_size + 1, Min(Len(data), (chunk_idx + 1) * chunk_size))

\* cbor_client.rs:125-130: the Content-Range header "bytes first-last/total"
chunk_header(data, chunk_size, chunk_idx) ==
    [first |-> chunk_idx * chunk_size,
     last |-> (chunk_idx + 1) * Min(chunk_size, Len(data)) - 1,
     total |-> Len(data)]

InitPut ==
    /\ OtherIdle
    /\ session = <<>>
    /\ chunks = <<>>
    /\ workers = <<>>
    /\ throttle = <<>>
    /\ \E n \in 0..MaxData, chunk_size \in 0..MaxChunkSize :
        uploads = [op |-> "put_binary_chunked", phase |-> "called",
                   data |-> [k \in 1..n |-> k], chunk_size |-> chunk_size,
                   chunked |-> FALSE, chunk_idx |-> 0, requests |-> <<>>,
                   result |-> "none"]

\* cbor_client.rs:109-118: the default chunk size, and the single request for data that
\* fits into one chunk
PutCall ==
    /\ uploads # <<>> /\ uploads.phase = "called"
    /\ uploads' = [uploads EXCEPT
                      !.chunk_size = IF @ = 0 THEN DEFAULT_CHUNK_SIZE ELSE @,
                      !.chunked = Len(uploads.data) >
                                     (IF uploads.chunk_size = 0 THEN DEFAULT_CHUNK_SIZE
                                      ELSE uploads.chunk_size),
                      !.phase = "sending"]
    /\ UNCHANGED <<hashVars, cacheVars, concVars, session, chunks, workers, throttle, toolVars>>

\* cbor_client.rs:117: put_binary(path, data)
PutSingle ==
    /\ uploads # <<>> /\ uploads.phase = "sending" /\ ~uploads.chunked
    /\ \E answer \in {"Ok", "Err"} :
        uploads' = [uploads EXCEPT
                       !.requests = Append(@, [header |-> None, body |-> uploads.data]),
                       !.phase = "returned", !.result = answer]
    /\ UNCHANGED <<hashVars, cacheVars, concVars, session, chunks, workers, throttle, toolVars>>

\* cbor_client.rs:122-154: the request of the next chunk and its answer
PutChunk ==
    /\ uploads # <<>> /\ uploads.phase = "sending" /\ uploads.chunked
    /\ uploads.chunk_idx * uploads.chunk_size < Len(uploads.data)
    /\ \E answer \in {"Ok", "Err"} :
        uploads' = [uploads EXCEPT
                       !.requests = Append(@,
                           [header |-> Some(chunk_header(uploads.data, uploads.chunk_size,
                                                         uploads.chunk_idx)),
                            body |-> chunk_of(uploads.data, uploads.chunk_size,
                                              uploads.chunk_idx)]),
                       !.chunk_idx = @ + 1,
                       !.phase = IF answer = "Err" THEN "returned" ELSE @,
                       !.result = IF answer = "Err" THEN "Err" ELSE @]
    /\ UNCHANGED <<hashVars, cacheVars, concVars, session, chunks, workers, throttle, toolVars>>

\* cbor_client.rs:157
PutReturn ==
    /\ uploads # <<>> /\ uploads.phase = "sending" /\ uploads.chunked
    /\ uploads.chunk_idx * uploads.chunk_size >= Len(uploads.data)
    /\ uploads' = [uploads EXCEPT !.phase = "returned", !.result = "Ok"]
    /\ UNCHANGED <<hashVars, cacheVars, concVars, session, chunks, workers, throttle, toolVars>>

NextPut == PutCall \/ PutSingle \/ PutChunk \/ PutReturn

SpecPut == InitPut /\ [][NextPut]_vars

ChunkedPut == uploads # <<>> /\ uploads.phase \in {"sending", "returned"} /\ uploads.chunked

\* C38: the Content-Range of every request of a chunked put names the bytes of its body:
\* the k-th request starts at k * chunk_size, ends at first + body length - 1, and never
\* past total - 1; the bodies are the data in ascending order
C38_RangeNamesBody ==
    ChunkedPut =>
        \A k \in DOMAIN uploads.requests :
            /\ uploads.requests[k].header.value.first = (k - 1) * uploads.chunk_size
            /\ uploads.requests[k].header.value.last
                   = uploads.requests[k].header.value.first + Len(uploads.requests[k].body) - 1
            /\ uploads.requests[k].header.value.last <= Len(uploads.data) - 1
            /\ uploads.requests[k].header.value.total = Len(uploads.data)
            /\ uploads.requests[k].body
                   = SubSeq(uploads.data, (k - 1) * uploads.chunk_size + 1,
                            (k - 1) * uploads.chunk_size + Len(uploads.requests[k].body))

\* what holds of every request: the start, the total and the body, in ascending order; and
\* the end as well for every chunk that is chunk_size long
C38_FullChunksNamed ==
    ChunkedPut =>
        \A k \in DOMAIN uploads.requests :
            /\ uploads.requests[k].header.value.first = (k - 1) * uploads.chunk_size
            /\ uploads.requests[k].header.value.total = Len(uploads.data)
            /\ uploads.requests[k].body
                   = SubSeq(uploads.data, (k - 1) * uploads.chunk_size + 1,
                            (k - 1) * uploads.chunk_size + Len(uploads.requests[k].body))
            /\ Len(uploads.requests[k].body) = uploads.chunk_size =>
                   uploads.requests[k].header.value.last
                       = uploads.requests[k].header.value.first + uploads.chunk_size - 1
            /\ uploads.requests[k].header.value.last = k * uploads.chunk_size - 1

(***************************************************************************)
(* upload_store_path (upload.rs:266-334) called for one store path after   *)
(* another, against a cache that keeps what was put                        *)
(***************************************************************************)
MaxCalls == 3

\* upload_nar (upload.rs:199-212): the file cannot be read, or the put is answered
NarOutcomes == {"read_failed", "put_ok", "put_failed"}

always_narinfo(nar) == "narinfo"

\* upload.rs:291-303: Err(e) of upload_nar ends the call, Ok goes on to the NARInfo
after_nar(nar) == IF nar = "put_ok" THEN "narinfo" ELSE "returned"

InitStorePath ==
    /\ OtherIdle
    /\ session = <<>>
    /\ chunks = <<>>
    /\ workers = <<>>
    /\ throttle = <<>>
    /\ uploads = [op |-> "upload_store_path", phase |-> "idle", calls |-> 0,
                  store_path |-> "", work_file |-> FALSE, final_file |-> FALSE,
                  nar |-> "none", narinfo |-> "none", log |-> <<>>, result |-> "none",
                  nars |-> {}, narinfos |-> {}]

\* upload_store_path(cbor_client, cache, store_path)
StorePathCall ==
    /\ uploads # <<>> /\ uploads.phase \in {"idle", "returned"}
    /\ uploads.calls < MaxCalls
    /\ \E store_path \in UploadPaths :
        uploads' = [uploads EXCEPT !.phase = "called", !.calls = @ + 1,
                                  !.store_path = store_path,
                                  !.work_file = FALSE, !.final_file = FALSE,
                                  !.nar = "none", !.narinfo = "none",
                                  !.log = <<>>, !.result = "none"]
    /\ UNCHANGED <<hashVars, cacheVars, concVars, session, chunks, workers, throttle, toolVars>>

\* upload.rs:270-276: nix-store --dump
DumpNar ==
    /\ uploads # <<>> /\ uploads.phase = "called"
    /\ \E dumped \in BOOLEAN :
        uploads' = IF dumped THEN [uploads EXCEPT !.phase = "dumped"]
                   ELSE [uploads EXCEPT !.phase = "returned", !.result = "Err"]
    /\ UNCHANGED <<hashVars, cacheVars, concVars, session, chunks, workers, throttle, toolVars>>

\* upload.rs:289, compress_and_hash_nar (123-196): the compressed file under its final
\* name, or an error that may leave the work file behind
CompressNar ==
    /\ uploads # <<>> /\ uploads.phase = "dumped"
    /\ \E compressed \in {"ok", "failed", "failed_early"} :
        uploads' = IF compressed = "ok"
                   THEN [uploads EXCEPT !.phase = "compressed", !.final_file = TRUE]
                   ELSE [uploads EXCEPT !.phase = "returned", !.result = "Err",
                                        !.work_file = (compressed = "failed")]
    /\ UNCHANGED <<hashVars, cacheVars, concVars, session, chunks, workers, throttle, toolVars>>

\* upload.rs:296-311: upload_nar; on Err the file is removed and the error returned, on Ok
\* the file is removed and the call goes on
UploadNar ==
    /\ uploads # <<>> /\ uploads.phase = "compressed"
    /\ \E nar \in NarOutcomes :
        uploads' = [uploads EXCEPT
                       !.nar = nar,
                       !.log = IF nar = "read_failed" THEN @ ELSE Append(@, "nar"),
                       !.nars = IF nar = "put_ok" THEN @ \cup {uploads.store_path} ELSE @,
                       !.final_file = FALSE,
                       !.phase = after_nar(nar),
                       !.result = IF after_nar(nar) = "returned" THEN "Err" ELSE @]
    /\ UNCHANGED <<hashVars, cacheVars, concVars, session, chunks, workers, throttle, toolVars>>

\* upload.rs:313-329, upload_narinfo: the references are read and the NARInfo is put
UploadNarInfo ==
    /\ uploads # <<>> /\ uploads.phase = "narinfo"
    /\ \E put \in {"ok", "failed"} :
        uploads' = [uploads EXCEPT
                       !.narinfo = put,
                       !.log = Append(@, "narinfo"),
                       !.narinfos = IF put = "ok" THEN @ \cup {uploads.store_path} ELSE @,
                       !.phase = "returned",
                       !.result = IF put = "ok" THEN "Ok" ELSE "Err"]
    /\ UNCHANGED <<hashVars, cacheVars, concVars, session, chunks, workers, throttle, toolVars>>

NextStorePath == StorePathCall \/ DumpNar \/ CompressNar \/ UploadNar \/ UploadNarInfo

SpecStorePath == InitStorePath /\ [][NextStorePath]_vars

C39_WitnessOk ==
    /\ uploads # <<>> /\ uploads.op = "upload_store_path"
    /\ uploads.phase = "returned" /\ uploads.result = "Ok"
    /\ uploads.log = <<"nar", "narinfo">>

(***************************************************************************)
(* The daemon's watch loop (daemon.rs:52-143): the store is listed, the    *)
(* paths not yet in uploaded_paths are uploaded one after another, and the *)
(* set is written to the state file after every upload that succeeded      *)
(***************************************************************************)
MaxCycles == 3

DaemonPaths == {"a", "b", "c"}

\* what `nix store ls` prints: every entry of the store once, in some order
Listings == UNION {Perms(S) : S \in SUBSET DaemonPaths}

\* daemon.rs:174-187: the non-empty lines of the state file, an empty set without a file
load_uploaded_paths(state_file) == {line \in state_file : line # ""}

\* daemon.rs:190-202: one line per path of the set
save_uploaded_paths(paths) == paths

\* daemon.rs:91-96: the listed paths that are not in uploaded_paths, in listing order
new_paths_of(current_paths, uploaded_paths) ==
    SelectSeq(current_paths, LAMBDA path : path \notin uploaded_paths)

NoAttempt == [path |-> "", ok |-> FALSE, n |-> 0]

InitDaemon ==
    /\ OtherIdle
    /\ session = <<>>
    /\ chunks = <<>>
    /\ workers = <<>>
    /\ throttle = <<>>
    /\ \E state_file \in SUBSET DaemonPaths :
        uploads = [op |-> "start_daemon", phase |-> "start", cycles |-> 0,
                   uploaded_paths |-> {}, state_file |-> state_file,
                   before |-> state_file, current_paths |-> <<>>, new_paths |-> <<>>,
                   succeeded |-> {},
                   last |-> NoAttempt, result |-> "none"]

\* daemon.rs:60, 79: the log directory is made and the state file is loaded;
\* either can fail and end start_daemon
DaemonStart ==
    /\ uploads # <<>> /\ uploads.op = "start_daemon" /\ uploads.phase = "start"
    /\ \E started \in BOOLEAN :
        uploads' = IF started
                   THEN [uploads EXCEPT !.phase = "watch",
                                        !.uploaded_paths = load_uploaded_paths(uploads.state_file)]
                   ELSE [uploads EXCEPT !.phase = "stopped", !.result = "Err"]
    /\ UNCHANGED <<hashVars, cacheVars, concVars, session, chunks, workers, throttle, toolVars>>

\* daemon.rs:89-135: get_store_paths answers; with no new path, or after an error
\* that was logged, the loop sleeps and starts over
Watch ==
    /\ uploads # <<>> /\ uploads.op = "start_daemon" /\ uploads.phase = "watch"
    /\ uploads.cycles < MaxCycles
    /\ \/ \E current_paths \in Listings :
            LET new_paths == new_paths_of(current_paths, uploads.uploaded_paths) IN
            uploads' = [uploads EXCEPT !.current_paths = current_paths,
                                      !.new_paths = new_paths,
                                      !.cycles = @ + 1,
                                      !.phase = IF new_paths = <<>> THEN "watch" ELSE "uploading"]
       \/ \E logged \in BOOLEAN :
            uploads' = IF logged
                       THEN [uploads EXCEPT !.cycles = @ + 1]
                       ELSE [uploads EXCEPT !.cycles = @ + 1, !.phase = "stopped",
                                            !.result = "Err"]
    /\ UNCHANGED <<hashVars, cacheVars, concVars, session, chunks, workers, throttle, toolVars>>

\* daemon.rs:107-114: Ok(_) of upload_path: the path is inserted, the set is saved
\* (a failed fs::write can leave any part of it) and the line is logged
UploadedOk(u, path, io) ==
    LET recorded == u.uploaded_paths \cup {path} IN
    {[u EXCEPT !.uploaded_paths = recorded,
               !.succeeded = @ \cup {path},
               !.state_file = state_file,
               !.last = [path |-> path, ok |-> TRUE, n |-> u.last.n + 1],
               !.new_paths = IF io = "ok" THEN Tail(@) ELSE @,
               !.phase = IF io # "ok" THEN "stopped"
                         ELSE IF Tail(u.new_paths) = <<>> THEN "watch" ELSE "uploading",
               !.result = IF io = "ok" THEN @ ELSE "Err"] :
        state_file \in IF io = "save_failed"
                       THEN SUBSET save_uploaded_paths(recorded)
                       ELSE {save_uploaded_paths(recorded)}}

\* daemon.rs:116-123: Err(e) of upload_path: the failure is logged and the loop goes on
UploadedErr(u, path, io) ==
    [u EXCEPT !.last = [path |-> path, ok |-> FALSE, n |-> u.last.n + 1],
              !.new_paths = IF io = "ok" THEN Tail(@) ELSE @,
              !.phase = IF io # "ok" THEN "stopped"
                        ELSE IF Tail(u.new_paths) = <<>> THEN "watch" ELSE "uploading",
              !.result = IF io = "ok" THEN @ ELSE "Err"]

\* daemon.rs:105-125: one turn of `for path in &new_paths`
UploadPath ==
    /\ uploads # <<>> /\ uploads.op = "start_daemon" /\ uploads.phase = "uploading"
    /\ LET path == Head(uploads.new_paths) IN
       \/ \E io \in {"ok", "save_failed", "log_failed"} :
            uploads' \in UploadedOk(uploads, path, io)
       \/ \E io \in {"ok", "log_failed"} :
            uploads' = UploadedErr(uploads, path, io)
    /\ UNCHANGED <<hashVars, cacheVars, concVars, session, chunks, workers, throttle, toolVars>>

NextDaemon == DaemonStart \/ Watch \/ UploadPath

SpecDaemon == InitDaemon /\ [][NextDaemon]_vars

DaemonRuns == uploads # <<>> /\ uploads.op = "start_daemon"

\* one turn of the upload loop ended with Err(e) of upload_path
FailedUploadStep ==
    /\ DaemonRuns /\ uploads.phase = "uploading"
    /\ uploads'.last.n = uploads.last.n + 1 /\ ~uploads'.last.ok

\* the loop went on to the rest of new_paths
WentOn ==
    /\ uploads'.phase # "stopped"
    /\ uploads'.new_paths = Tail(uploads.new_paths)

\* C31: a path whose upload failed neither stops the daemon nor blocks the remaining
\* new paths of the cycle, and it stays unrecorded
C31_FailedUploadGoesOn ==
    [][FailedUploadStep =>
        /\ WentOn
        /\ uploads'.uploaded_paths = uploads.uploaded_paths
        /\ uploads'.state_file = uploads.state_file]_vars

\* the rest of C31: a path that the state file did not hold at the start enters
\* uploaded_paths and the state file only with an upload of it that succeeded, no path of uploaded_paths is uploaded, every listed path that is
\* not recorded is taken into the cycle, and a failed upload whose log line was written
\* goes on
C31_RecordedAfterSuccess ==
    /\ [](DaemonRuns =>
            /\ uploads.uploaded_paths \subseteq uploads.before \cup uploads.succeeded
            /\ uploads.state_file \subseteq uploads.before \cup uploads.succeeded
            /\ uploads.phase = "uploading" =>
                    SeqToSet(uploads.new_paths) \cap uploads.uploaded_paths = {})
    /\ [][(DaemonRuns /\ uploads'.last.n = uploads.last.n + 1) =>
            /\ uploads'.last.path = Head(uploads.new_paths)
            /\ uploads'.last.path \notin uploads.uploaded_paths
            /\ uploads'.uploaded_paths \ uploads.uploaded_paths
                    = IF uploads'.last.ok THEN {uploads'.last.path} ELSE {}
            /\ (~uploads'.last.ok /\ uploads'.result = "none") => WentOn]_vars
    /\ [][(DaemonRuns /\ uploads.phase = "watch" /\ uploads'.cycles = uploads.cycles + 1
            /\ uploads'.phase # "stopped") =>
            \/ UNCHANGED <<uploads.current_paths, uploads.new_paths>>
            \/ SeqToSet(uploads'.new_paths)
                    = SeqToSet(uploads'.current_paths) \ uploads.uploaded_paths]_vars

\* the upload of a path failed in one cycle and is the next attempt of a later cycle
C31_WitnessRetried ==
    /\ DaemonRuns /\ uploads.cycles = 2 /\ uploads.phase = "uploading"
    /\ ~uploads.last.ok /\ uploads.last.n = 2
    /\ Head(uploads.new_paths) = uploads.last.path
    /\ uploads.succeeded # {}

\* the daemon ended on the failed upload of the first of two new paths
C31_WitnessStopped ==
    /\ DaemonRuns /\ uploads.phase = "stopped"
    /\ ~uploads.last.ok /\ uploads.last.n = 1
    /\ Len(uploads.new_paths) = 2

====
